---------------------------- MODULE Spec2Model ----------------------------
(***************************************************************************)
(* A model of glyphsLib's .glyphs text format: Lib/glyphsLib/parser.py     *)
(* (Parser, Writer, the escape codec).                                     *)
(*                                                                         *)
(* Text is a sequence of code points (Python 3 str semantics).  Offsets    *)
(* are Python's 0-based offsets: the character at offset i is text[i+1].   *)
(***************************************************************************)
EXTENDS Integers, Sequences, FiniteSets, TLC

VARIABLES
    pc,      \* position of the current call sequence
    fam,     \* which family of inputs the run was started with
    doc,     \* the structured description the input text was rendered from
    s,       \* input of escape_text / unescape_text
    esc,     \* result of Writer.escape_text
    dec,     \* result of Parser.unescape_text
    text,    \* input of Parser.parse
    pres,    \* outcome of Parser.parse
    tree,    \* input of Writer.write
    out,     \* the sink: the sequence of operations performed on it
    parser,  \* the Parser object: [unescape]
    writer,  \* the Writer object: [indent, sort_keys, escape, curindent]
    heap,    \* the objects of the caller and of dump: address -> node
    fault,   \* the number of writes the sink accepts before it raises
    raised,  \* the exception that reached the caller ("" when none did)
    calls,   \* the calls in progress in two threads, and the curindent cells
    ufo,     \* the UFO objects of the builder: kerning, lib, glyph
    glyphs   \* the Glyphs objects of the builder: master, layer

vars == <<pc, fam, doc, s, esc, dec, text, pres, tree, out, parser, writer,
          heap, fault, raised, calls, ufo, glyphs>>

(***************************************************************************)
(* Characters that the source names.                                       *)
(***************************************************************************)
TAB == 9
NL == 10
SPACE == 32
QUOTE == 34
DOLLAR == 36
LPAREN == 40
RPAREN == 41
COMMA == 44
MINUS == 45
DOT == 46
SLASH == 47
SEMI == 59
EQUALS == 61
BSL == 92
USCORE == 95
LBRACE == 123
RBRACE == 125
TILDE == 126
CapU == 85
Digit0 == 48

\* Characters used only to build inputs.
Ch1 == 49
Ch2 == 50
Ch4 == 52
Ch5 == 53
ChA == 65
Cha == 97
Chb == 98
Chc == 99
Chn == 110
Chx == 120
CtrlA == 1
DEL == 127
EAcute == 233
Emoji == 128512

IsDigit(c) == c \in 48..57
IsOctDigit(c) == c \in 48..55
IsUpper(c) == c \in 65..90
IsLower(c) == c \in 97..122
IsAlnum(c) == IsDigit(c) \/ IsUpper(c) \/ IsLower(c)
IsHexDigit(c) == IsDigit(c) \/ c \in 65..70 \/ c \in 97..102

\* \s of the re module, on the ASCII range
IsSpace(c) == c \in {SPACE, TAB, NL, 11, 12, 13}

\* [-_./$A-Za-z0-9] of Parser.value_re
IsBareChar(c) == c \in {MINUS, USCORE, DOT, SLASH, DOLLAR} \/ IsAlnum(c)

(***************************************************************************)
(* Sequence helpers (Python slicing with 0-based offsets).                 *)
(***************************************************************************)
Min(a, b) == IF a < b THEN a ELSE b

\* text[i:j]
Slice(t, i, j) == SubSeq(t, i + 1, Min(j, Len(t)))

\* text[i:]
From(t, i) == SubSeq(t, i + 1, Len(t))

RECURSIVE Flatten(_)
Flatten(ss) == IF ss = <<>> THEN <<>> ELSE Head(ss) \o Flatten(Tail(ss))

\* ' ' * n
Spaces(n) == [k \in 1..n |-> SPACE]

\* text.strip() is non-empty
StripNonEmpty(t) == \E k \in 1..Len(t) : ~IsSpace(t[k])

(***************************************************************************)
(* Writer.escape_text                                                      *)
(***************************************************************************)
OctDigitChar(d) == Digit0 + d

HexDigitChar(d) == IF d < 10 THEN Digit0 + d ELSE ChA + (d - 10)

\* '%03o' % v, for v < 0x20
Oct3(v) == << OctDigitChar(v \div 64), OctDigitChar((v \div 8) % 8),
              OctDigitChar(v % 8) >>

RECURSIVE HexMin(_, _)
\* '%0wX' % v: upper-case hexadecimal, zero-padded to at least w digits
HexMin(v, w) ==
    IF v < 16 /\ w <= 1 THEN << HexDigitChar(v) >>
    ELSE Append(HexMin(v \div 16, w - 1), HexDigitChar(v % 16))

\* Writer._escape_re: ([^ -~\u0009])|"
EscapeGroup1(c) == ~(c \in SPACE..TILDE) /\ c # TAB

_escape_fn(c) ==
    IF EscapeGroup1(c)
    THEN IF c < SPACE THEN <<BSL>> \o Oct3(c) ELSE <<BSL, CapU>> \o HexMin(c, 4)
    ELSE <<BSL, QUOTE>>

RECURSIVE EscapeSub(_)
\* Writer._escape_re.sub(Writer._escape_fn, text)
EscapeSub(t) ==
    IF t = <<>> THEN <<>>
    ELSE (IF EscapeGroup1(Head(t)) \/ Head(t) = QUOTE
          THEN _escape_fn(Head(t)) ELSE << Head(t) >>) \o EscapeSub(Tail(t))

\* [0-9]* up to the end of d, from offset i
DigitsFrom(d, i) == \A k \in (i + 1)..Len(d) : IsDigit(d[k])

\* [_a-zA-Z0-9\.]
IsSymRest(c) == c \in {USCORE, DOT} \/ IsAlnum(c)

\* [_a-zA-Z0-9/\.]
IsSymFirst(c) == c = SLASH \/ IsSymRest(c)

\* -?\.[0-9]+ anchored at both ends
SymAlt1(d) ==
    LET i == IF d # <<>> /\ d[1] = MINUS THEN 1 ELSE 0
    IN  /\ Len(d) >= i + 2
        /\ d[i + 1] = DOT
        /\ DigitsFrom(d, i + 1)

\* -?[0-9]+\.?[0-9]* anchored at both ends
SymAlt2(d) ==
    LET i == IF d # <<>> /\ d[1] = MINUS THEN 1 ELSE 0
    IN  /\ Len(d) >= i + 1
        /\ IsDigit(d[i + 1])
        /\ \E j \in (i + 1)..Len(d) :
              /\ \A k \in (i + 1)..j : IsDigit(d[k])
              /\ \/ j = Len(d)
                 \/ d[j + 1] = DOT /\ DigitsFrom(d, j + 1)

\* [_a-zA-Z0-9/\.][_a-zA-Z0-9\.]* anchored at both ends
SymAlt3(d) ==
    /\ d # <<>>
    /\ IsSymFirst(d[1])
    /\ \A k \in 2..Len(d) : IsSymRest(d[k])

\* Mutant of _sym_re: the slash allowed after the first character too
_sym_re_slash_anywhere(d) ==
    SymAlt1(d) \/ SymAlt2(d) \/ (d # <<>> /\ \A k \in 1..Len(d) : IsSymFirst(d[k]))

\* Mutant of _sym_re: no $ at the end of the pattern
_sym_re_without_end_anchor(d) ==
    \E j \in 1..Len(d) :
        LET p == SubSeq(d, 1, j) IN SymAlt1(p) \/ SymAlt2(p) \/ SymAlt3(p)

\* Writer._sym_re.match(data)
_sym_re(d) == SymAlt1(d) \/ SymAlt2(d) \/ SymAlt3(d)

escape_text(t) ==
    LET data == EscapeSub(t)
    IN  IF _sym_re(data) THEN data ELSE <<QUOTE>> \o data \o <<QUOTE>>

(***************************************************************************)
(* Parser.unescape_text                                                    *)
(***************************************************************************)
OctVal(c) == c - Digit0

HexVal(c) == IF IsDigit(c) THEN c - Digit0
             ELSE IF c \in 65..70 THEN c - 55 ELSE c - 87

\* (\\0[0-7]{2}) matches at offset i
OctEscapeAt(t, i) ==
    /\ i + 4 <= Len(t)
    /\ t[i + 1] = BSL
    /\ t[i + 2] = Digit0
    /\ IsOctDigit(t[i + 3])
    /\ IsOctDigit(t[i + 4])

\* (\\U[0-9a-fA-F]{4}) matches at offset i
UniEscapeAt(t, i) ==
    /\ i + 6 <= Len(t)
    /\ t[i + 1] = BSL
    /\ t[i + 2] = CapU
    /\ \A k \in 3..6 : IsHexDigit(t[i + k])

\* Parser._unescape_fn for the match at offset i
_unescape_fn(t, i) ==
    IF OctEscapeAt(t, i)
    THEN 64 * OctVal(t[i + 2]) + 8 * OctVal(t[i + 3]) + OctVal(t[i + 4])
    ELSE 4096 * HexVal(t[i + 3]) + 256 * HexVal(t[i + 4])
         + 16 * HexVal(t[i + 5]) + HexVal(t[i + 6])

\* The offset of the first backslash of t at or after offset i, Len(t) when
\* there is none: no match of either pattern starts before it
NextBackslash(t, i) ==
    CHOOSE j \in i..Len(t) :
        /\ \A k \in (i + 1)..j : t[k] # BSL
        /\ j < Len(t) => t[j + 1] = BSL

RECURSIVE UnescapeSub(_, _)
\* Parser._unescape_re.sub(Parser._unescape_fn, text), scanning from offset i
UnescapeSub(t, i) ==
    IF i >= Len(t) THEN <<>>
    ELSE IF t[i + 1] # BSL
    THEN SubSeq(t, i + 1, NextBackslash(t, i)) \o UnescapeSub(t, NextBackslash(t, i))
    ELSE IF OctEscapeAt(t, i) THEN << _unescape_fn(t, i) >> \o UnescapeSub(t, i + 4)
    ELSE IF UniEscapeAt(t, i) THEN << _unescape_fn(t, i) >> \o UnescapeSub(t, i + 6)
    ELSE << t[i + 1] >> \o UnescapeSub(t, i + 1)

RECURSIVE ReplaceEscQuote(_, _)
\* text.replace('\\"', '"'), scanning from offset i
ReplaceEscQuote(t, i) ==
    IF i >= Len(t) THEN <<>>
    ELSE IF t[i + 1] # BSL
    THEN SubSeq(t, i + 1, NextBackslash(t, i)) \o ReplaceEscQuote(t, NextBackslash(t, i))
    ELSE IF i + 2 <= Len(t) /\ t[i + 2] = QUOTE
         THEN <<QUOTE>> \o ReplaceEscQuote(t, i + 2)
         ELSE << t[i + 1] >> \o ReplaceEscQuote(t, i + 1)

\* The exception unescape_text raises on this argument ("" when it returns).
unescape_raises(t) ==
    IF t = <<>> THEN "IndexError"
    ELSE IF t[1] = QUOTE /\ t[Len(t)] # QUOTE THEN "AssertionError"
    ELSE ""

\* Mutant of unescape_text: backslash-quote is not replaced
unescape_text_keep_quote_escapes(t) ==
    IF t[1] = QUOTE
    THEN UnescapeSub(Slice(t, 1, Len(t) - 1), 0)
    ELSE UnescapeSub(t, 0)

\* The value unescape_text returns (when it does not raise).
unescape_text(t) ==
    IF t[1] = QUOTE
    THEN UnescapeSub(ReplaceEscQuote(Slice(t, 1, Len(t) - 1), 0), 0)
    ELSE UnescapeSub(t, 0)

(***************************************************************************)
(* The tree.  A node is a record of one shape for the three variants:      *)
(* a Scalar has val; a Sequence has kids; a Mapping (OrderedDict) has      *)
(* keys and kids, kids[j] being the value of keys[j].                      *)
(***************************************************************************)
Scalar(v) == [kind |-> "scalar", val |-> v, keys |-> <<>>, kids |-> <<>>]
List(items) == [kind |-> "list", val |-> <<>>, keys |-> <<>>, kids |-> items]
Dict(ks, vs) == [kind |-> "dict", val |-> <<>>, keys |-> ks, kids |-> vs]
NoNode == [kind |-> "none", val |-> <<>>, keys |-> <<>>, kids |-> <<>>]

KeyIndex(ks, k) == CHOOSE j \in 1..Len(ks) : ks[j] = k

HasKey(ks, k) == \E j \in 1..Len(ks) : ks[j] = k

\* Mutant of OD_setitem: an assigned key moves to the end
OD_setitem_move_to_end(d, k, v) ==
    LET keep == SelectSeq([j \in 1..Len(d.keys) |-> j], LAMBDA j : d.keys[j] # k)
    IN  Dict([j \in 1..Len(keep) |-> d.keys[keep[j]]] \o <<k>>,
             [j \in 1..Len(keep) |-> d.kids[keep[j]]] \o <<v>>)

\* collections.OrderedDict: res[name] = value
OD_setitem(d, k, v) ==
    IF HasKey(d.keys, k)
    THEN Dict(d.keys, [d.kids EXCEPT ![KeyIndex(d.keys, k)] = v])
    ELSE Dict(Append(d.keys, k), Append(d.kids, v))

\* data[k]
OD_getitem(d, k) == d.kids[KeyIndex(d.keys, k)]

(***************************************************************************)
(* Parser: the regular expressions.  A match is reported by its end offset *)
(* (NoMatch when the pattern does not match at i).                         *)
(***************************************************************************)
NoMatch == -1

\* \s* at offset i: the offset after the longest run of whitespace
SkipSpace(t, i) ==
    CHOOSE j \in i..Len(t) :
        /\ \A k \in (i + 1)..j : IsSpace(t[k])
        /\ j < Len(t) => ~IsSpace(t[j + 1])

\* \s* followed by the character c, matched at offset i
DelimMatch(t, i, c) ==
    LET j == SkipSpace(t, i)
    IN  IF j < Len(t) /\ t[j + 1] = c THEN j + 1 ELSE NoMatch

start_dict_re(t, i) == DelimMatch(t, i, LBRACE)
end_dict_re(t, i) == DelimMatch(t, i, RBRACE)
dict_delim_re(t, i) == DelimMatch(t, i, SEMI)
start_list_re(t, i) == DelimMatch(t, i, LPAREN)
\* \) matched at offset i with no whitespace skipped
end_list_re_without_space(t, i) ==
    IF i < Len(t) /\ t[i + 1] = RPAREN THEN i + 1 ELSE NoMatch
end_list_re(t, i) == DelimMatch(t, i, RPAREN)
list_delim_re(t, i) == DelimMatch(t, i, COMMA)

\* [-_./$A-Za-z0-9]+ from offset i (greedy): its end offset, i when no
\* character matches
BareEnd(t, i) ==
    CHOOSE j \in i..Len(t) :
        /\ \A k \in (i + 1)..j : IsBareChar(t[k])
        /\ j < Len(t) => ~IsBareChar(t[j + 1])

\* (?<!\\)" at offset q: a double quote not preceded by a backslash
ClosingQuoteAt(t, q) == q < Len(t) /\ t[q + 1] = QUOTE /\ t[q] # BSL

\* The group of a match: [m: matched, s: start of group 1, e: end of group 1,
\* end: end of the whole match].
NoGroup == [m |-> FALSE, s |-> 0, e |-> 0, end |-> 0]

\* Parser.value_re.match(text, i): \s*(".*?(?<!\\)"|[-_./$A-Za-z0-9]+), DOTALL
value_re(t, i) ==
    LET j == SkipSpace(t, i)
    IN  IF j < Len(t) /\ t[j + 1] = QUOTE
        THEN \* .*? is lazy: the first closing quote ends the match
             LET qs == { q \in (j + 1)..(Len(t) - 1) : ClosingQuoteAt(t, q) }
             IN  IF qs = {} THEN NoGroup
                 ELSE LET q == CHOOSE q \in qs : \A r \in qs : q <= r
                      IN  [m |-> TRUE, s |-> j, e |-> q + 1, end |-> q + 1]
        ELSE IF BareEnd(t, j) > j
        THEN [m |-> TRUE, s |-> j, e |-> BareEnd(t, j), end |-> BareEnd(t, j)]
        ELSE NoGroup

\* Parser.attr_re.match(text, i): \s*(".*?(?<!\\)"|[-_./$A-Za-z0-9]+)\s*=, DOTALL
attr_re(t, i) ==
    LET j == SkipSpace(t, i)
    IN  IF j < Len(t) /\ t[j + 1] = QUOTE
        THEN \* .*? is lazy, and the regex engine backtracks: the match ends at
             \* the first closing quote that \s*= can follow
             LET qs == { q \in (j + 1)..(Len(t) - 1) :
                            /\ ClosingQuoteAt(t, q)
                            /\ DelimMatch(t, q + 1, EQUALS) # NoMatch }
             IN  IF qs = {} THEN NoGroup
                 ELSE LET q == CHOOSE q \in qs : \A r \in qs : q <= r
                      IN  [m |-> TRUE, s |-> j, e |-> q + 1,
                           end |-> DelimMatch(t, q + 1, EQUALS)]
        ELSE IF BareEnd(t, j) > j /\ DelimMatch(t, BareEnd(t, j), EQUALS) # NoMatch
        THEN [m |-> TRUE, s |-> j, e |-> BareEnd(t, j),
              end |-> DelimMatch(t, BareEnd(t, j), EQUALS)]
        ELSE NoGroup

(***************************************************************************)
(* Parser                                                                  *)
(***************************************************************************)
ExcerptLen == 79

UnexpectedContent == "Unexpected content"
UnexpectedDictContent == "Unexpected dictionary content"
MissingDictDelimiter == "Missing delimiter in dictionary before content"
MissingListDelimiter == "Missing delimiter in list before content"
UnexpectedTrailingContent == "Unexpected trailing content"

\* A parse outcome: ok with the value and the end offset i, or the ValueError
\* of Parser._fail with its message, offset i and excerpt.
Parsed(v, i) == [ok |-> TRUE, value |-> v, i |-> i, msg |-> "", excerpt |-> <<>>]

\* Mutant of _fail: the excerpt is the whole rest of the text
_fail_unbounded_excerpt(message, t, i) ==
    [ok |-> FALSE, value |-> NoNode, i |-> i, msg |-> message,
     excerpt |-> From(t, i)]

\* Parser._fail
_fail(message, t, i) ==
    [ok |-> FALSE, value |-> NoNode, i |-> i, msg |-> message,
     excerpt |-> Slice(t, i, i + ExcerptLen)]

\* Mutant of _trim_value: the lexeme is decoded whatever the option
_trim_value_always_unescapes(un, value) == unescape_text(value)

\* Parser._trim_value
_trim_value(un, value) == IF un THEN unescape_text(value) ELSE value

RECURSIVE _parse(_, _, _)
RECURSIVE DictLoop(_, _, _, _)
RECURSIVE ListLoop(_, _, _, _)

\* Mutant of DictLoop: the ; may be left out before the closing brace
DictLoop_optional_last_delimiter(un, t, i, res) ==
    IF end_dict_re(t, i) # NoMatch
    THEN Parsed(res, end_dict_re(t, i))
    ELSE LET m == attr_re(t, i)
         IN  IF ~m.m THEN _fail(UnexpectedDictContent, t, i)
             ELSE LET name == _trim_value(un, Slice(t, m.s, m.e))
                      r == _parse(un, t, m.end)
                  IN  IF ~r.ok THEN r
                      ELSE IF dict_delim_re(t, r.i) # NoMatch
                      THEN DictLoop(un, t, dict_delim_re(t, r.i),
                                    OD_setitem(res, name, r.value))
                      ELSE IF end_dict_re(t, r.i) # NoMatch
                      THEN DictLoop(un, t, r.i, OD_setitem(res, name, r.value))
                      ELSE _fail(MissingDictDelimiter, t, r.i)

\* The while loop of Parser._parse_dict, entered at offset i with res
DictLoop(un, t, i, res) ==
    IF end_dict_re(t, i) # NoMatch
    THEN Parsed(res, end_dict_re(t, i))
    ELSE LET m == attr_re(t, i)
         IN  IF ~m.m THEN _fail(UnexpectedDictContent, t, i)
             ELSE LET name == _trim_value(un, Slice(t, m.s, m.e))
                      r == _parse(un, t, m.end)
                  IN  IF ~r.ok THEN r
                      ELSE IF dict_delim_re(t, r.i) = NoMatch
                      THEN _fail(MissingDictDelimiter, t, r.i)
                      ELSE DictLoop(un, t, dict_delim_re(t, r.i),
                                    OD_setitem(res, name, r.value))

\* Parser._parse_dict
_parse_dict(un, t, i) == DictLoop(un, t, i, Dict(<<>>, <<>>))

\* Mutant of ListLoop: a comma may come before the closing parenthesis
ListLoop_trailing_comma(un, t, i, res) ==
    LET r == _parse(un, t, i)
    IN  IF ~r.ok THEN r
        ELSE LET res2 == Append(res, r.value)
             IN  IF end_list_re(t, r.i) # NoMatch
                 THEN Parsed(List(res2), end_list_re(t, r.i))
                 ELSE IF list_delim_re(t, r.i) = NoMatch
                 THEN _fail(MissingListDelimiter, t, r.i)
                 ELSE IF end_list_re(t, list_delim_re(t, r.i)) # NoMatch
                 THEN Parsed(List(res2),
                             end_list_re(t, list_delim_re(t, r.i)))
                 ELSE ListLoop(un, t, list_delim_re(t, r.i), res2)

\* The body of the while loop of Parser._parse_list, entered at offset i
ListLoop(un, t, i, res) ==
    LET r == _parse(un, t, i)
    IN  IF ~r.ok THEN r
        ELSE LET res2 == Append(res, r.value)
             IN  IF end_list_re(t, r.i) # NoMatch
                 THEN Parsed(List(res2), end_list_re(t, r.i))
                 ELSE IF list_delim_re(t, r.i) = NoMatch
                 THEN _fail(MissingListDelimiter, t, r.i)
                 ELSE ListLoop(un, t, list_delim_re(t, r.i), res2)

\* Parser._parse_list
_parse_list(un, t, i) ==
    IF end_list_re(t, i) # NoMatch
    THEN Parsed(List(<<>>), end_list_re(t, i))
    ELSE ListLoop(un, t, i, <<>>)

\* Parser._parse
_parse(un, t, i) ==
    IF start_dict_re(t, i) # NoMatch
    THEN _parse_dict(un, t, start_dict_re(t, i))
    ELSE IF start_list_re(t, i) # NoMatch
    THEN _parse_list(un, t, start_list_re(t, i))
    ELSE LET m == value_re(t, i)
         IN  IF m.m
             THEN Parsed(Scalar(_trim_value(un, Slice(t, m.s, m.e))), m.end)
             ELSE _fail(UnexpectedContent, t, i)

\* Mutant of parse: what follows the root value is not looked at
parse_ignores_trailing(un, t) == _parse(un, t, 0)

\* Parser.parse (the end offset of the root value is kept in the outcome)
parse(un, t) ==
    LET r == _parse(un, t, 0)
    IN  IF ~r.ok THEN r
        ELSE IF StripNonEmpty(From(t, r.i))
        THEN _fail(UnexpectedTrailingContent, t, r.i)
        ELSE r

(***************************************************************************)
(* The scan offset.  The values i takes during a call, in the order they   *)
(* are taken, each call starting with the offset it is given, and the      *)
(* iterations of the two while loops that ran to their end, each with the  *)
(* offset it began with and the offset it left.                            *)
(***************************************************************************)
Trace(ok, offs, iters) == [ok |-> ok, offs |-> offs, iters |-> iters]
Iteration(loop, from, to) == [loop |-> loop, from |-> from, to |-> to]
LastOf(offs) == offs[Len(offs)]

RECURSIVE _parse_offsets(_, _)
RECURSIVE DictLoop_offsets(_, _)
RECURSIVE ListLoop_offsets(_, _)

\* The while loop of Parser._parse_dict, entered at offset i
DictLoop_offsets(t, i) ==
    IF end_dict_re(t, i) # NoMatch
    THEN Trace(TRUE, <<i, end_dict_re(t, i)>>, <<>>)
    ELSE LET m == attr_re(t, i)
         IN  IF ~m.m THEN Trace(FALSE, <<i>>, <<>>)
             ELSE LET r == _parse_offsets(t, m.end)
                      d == dict_delim_re(t, LastOf(r.offs))
                  IN  IF ~r.ok \/ d = NoMatch
                      THEN Trace(FALSE, <<i>> \o r.offs, r.iters)
                      ELSE LET rest == DictLoop_offsets(t, d)
                           IN  Trace(rest.ok, <<i>> \o r.offs \o rest.offs,
                                     r.iters \o <<Iteration("dict", i, d)>> \o rest.iters)

\* The body of the while loop of Parser._parse_list, entered at offset i
ListLoop_offsets(t, i) ==
    LET r == _parse_offsets(t, i)
        e == LastOf(r.offs)
    IN  IF ~r.ok THEN r
        ELSE IF end_list_re(t, e) # NoMatch
        THEN Trace(TRUE, r.offs \o <<end_list_re(t, e)>>,
                   r.iters \o <<Iteration("list", i, e)>>)
        ELSE IF list_delim_re(t, e) = NoMatch
        THEN Trace(FALSE, r.offs, r.iters)
        ELSE LET rest == ListLoop_offsets(t, list_delim_re(t, e))
             IN  Trace(rest.ok, r.offs \o rest.offs,
                       r.iters \o <<Iteration("list", i, list_delim_re(t, e))>>
                               \o rest.iters)

\* Mutant of _parse_offsets: i is not moved past the value matched
_parse_offsets_value_not_consumed(t, i) ==
    IF start_dict_re(t, i) # NoMatch
    THEN LET r == DictLoop_offsets(t, start_dict_re(t, i))
         IN  Trace(r.ok, <<i>> \o r.offs, r.iters)
    ELSE IF start_list_re(t, i) # NoMatch
    THEN LET j == start_list_re(t, i)
             r == IF end_list_re(t, j) # NoMatch
                  THEN Trace(TRUE, <<j, end_list_re(t, j)>>, <<>>)
                  ELSE ListLoop_offsets(t, j)
         IN  Trace(r.ok, <<i>> \o r.offs, r.iters)
    ELSE Trace(value_re(t, i).m, <<i>>, <<>>)

\* Parser._parse
_parse_offsets(t, i) ==
    IF start_dict_re(t, i) # NoMatch
    THEN LET r == DictLoop_offsets(t, start_dict_re(t, i))
         IN  Trace(r.ok, <<i>> \o r.offs, r.iters)
    ELSE IF start_list_re(t, i) # NoMatch
    THEN LET j == start_list_re(t, i)
             r == IF end_list_re(t, j) # NoMatch
                  THEN Trace(TRUE, <<j, end_list_re(t, j)>>, <<>>)
                  ELSE ListLoop_offsets(t, j)
         IN  Trace(r.ok, <<i>> \o r.offs, r.iters)
    ELSE LET m == value_re(t, i)
         IN  IF m.m THEN Trace(TRUE, <<i, m.end>>, <<>>)
             ELSE Trace(FALSE, <<i>>, <<>>)

(***************************************************************************)
(* Writer.  A writer is [indent, sort_keys, escape]; curindent is threaded *)
(* through the calls, and every call returns the strings it wrote to the   *)
(* sink (one per out.write call) with the curindent it leaves.             *)
(***************************************************************************)
Written(chunks, cur) == [chunks |-> chunks, cur |-> cur]

RECURSIVE StrLess(_, _)
\* a < b for Python strings (lexicographic by code point)
StrLess(a, b) ==
    IF b = <<>> THEN FALSE
    ELSE IF a = <<>> THEN TRUE
    ELSE IF Head(a) # Head(b) THEN Head(a) < Head(b)
    ELSE StrLess(Tail(a), Tail(b))

RECURSIVE Insert(_, _)
Insert(k, sorted) ==
    IF sorted = <<>> THEN <<k>>
    ELSE IF StrLess(k, Head(sorted)) THEN <<k>> \o sorted
    ELSE <<Head(sorted)>> \o Insert(k, Tail(sorted))

RECURSIVE Sorted(_)
\* sorted(data.keys())
Sorted(ks) == IF ks = <<>> THEN <<>> ELSE Insert(Head(ks), Sorted(Tail(ks)))

\* Writer._write_atom: the string written
_write_atom(w, data) == IF w.escape THEN escape_text(data) ELSE data

RECURSIVE _write(_, _, _)
RECURSIVE DictPairs(_, _, _, _, _, _)
RECURSIVE ListItems(_, _, _, _, _, _)

\* Mutant of DictPairs: the last pair of a dict is written without its ;
DictPairs_last_pair_undelimited(w, data, keys, j, pad, cur) ==
    IF j > Len(keys) THEN Written(<<>>, cur)
    ELSE LET v == _write(w, OD_getitem(data, keys[j]), cur)
             rest == DictPairs(w, data, keys, j + 1, pad, v.cur)
         IN  Written(<<pad, _write_atom(w, keys[j]), <<SPACE, EQUALS, SPACE>>>>
                       \o v.chunks
                       \o << IF j = Len(keys) THEN <<NL>> ELSE <<SEMI, NL>> >>
                       \o rest.chunks,
                     rest.cur)

\* The for loop of Writer._write_dict from the j-th key on
DictPairs(w, data, keys, j, pad, cur) ==
    IF j > Len(keys) THEN Written(<<>>, cur)
    ELSE LET v == _write(w, OD_getitem(data, keys[j]), cur)
             rest == DictPairs(w, data, keys, j + 1, pad, v.cur)
         IN  Written(<<pad, _write_atom(w, keys[j]), <<SPACE, EQUALS, SPACE>>>>
                       \o v.chunks \o << <<SEMI, NL>> >> \o rest.chunks,
                     rest.cur)

\* Mutant of _write_dict: the sort_keys option is not looked at
_write_dict_ignores_sort_keys(w, data, cur) ==
    LET cur1 == cur + w.indent
        body == DictPairs(w, data, data.keys, 1, Spaces(cur1), cur1)
        cur2 == body.cur - w.indent
    IN  Written(<< <<LBRACE, NL>> >> \o body.chunks \o <<Spaces(cur2), <<RBRACE>>>>,
                cur2)

\* Writer._write_dict
_write_dict(w, data, cur) ==
    LET keys == IF w.sort_keys THEN Sorted(data.keys) ELSE data.keys
        cur1 == cur + w.indent
        body == DictPairs(w, data, keys, 1, Spaces(cur1), cur1)
        cur2 == body.cur - w.indent
    IN  Written(<< <<LBRACE, NL>> >> \o body.chunks \o <<Spaces(cur2), <<RBRACE>>>>,
                cur2)

\* Mutant of ListItems: the comma is written after every element
ListItems_comma_after_each(w, data, j, first, pad, cur) ==
    IF j > Len(data.kids) THEN Written(<<>>, cur)
    ELSE LET v == _write(w, data.kids[j], cur)
             rest == ListItems(w, data, j + 1, FALSE, pad, v.cur)
         IN  Written(<< <<NL>>, pad >> \o v.chunks \o << <<COMMA>> >> \o rest.chunks,
                     rest.cur)

\* The for loop of Writer._write_list from the j-th element on
ListItems(w, data, j, first, pad, cur) ==
    IF j > Len(data.kids) THEN Written(<<>>, cur)
    ELSE LET v == _write(w, data.kids[j], cur)
             rest == ListItems(w, data, j + 1, FALSE, pad, v.cur)
         IN  Written(<<(IF first THEN <<NL>> ELSE <<COMMA, NL>>), pad>>
                       \o v.chunks \o rest.chunks,
                     rest.cur)

\* Mutant of _write_list: an empty list is written as () on one line
_write_list_empty_on_one_line(w, data, cur) ==
    IF data.kids = <<>> THEN Written(<< <<LPAREN>>, <<RPAREN>> >>, cur)
    ELSE LET cur1 == cur + w.indent
             body == ListItems(w, data, 1, TRUE, Spaces(cur1), cur1)
             cur2 == body.cur - w.indent
         IN  Written(<< <<LPAREN>> >> \o body.chunks
                       \o << <<NL>>, Spaces(cur2), <<RPAREN>> >>,
                     cur2)

\* Writer._write_list
_write_list(w, data, cur) ==
    LET cur1 == cur + w.indent
        body == ListItems(w, data, 1, TRUE, Spaces(cur1), cur1)
        cur2 == body.cur - w.indent
    IN  Written(<< <<LPAREN>> >> \o body.chunks
                  \o << <<NL>>, Spaces(cur2), <<RPAREN>> >>,
                cur2)

\* Writer._write
_write(w, data, cur) ==
    IF data.kind = "dict" THEN _write_dict(w, data, cur)
    ELSE IF data.kind = "list" THEN _write_list(w, data, cur)
    ELSE Written(<<_write_atom(w, data.val)>>, cur)

\* Mutant of write: curindent is not reset on entry
write_keeps_curindent(w, data) ==
    LET r == _write(w, data, w.curindent)
    IN  Written(r.chunks \o << <<NL>> >>, r.cur)

\* Writer.write: what the sink receives (the flush follows the last write)
write(w, data) ==
    LET r == _write(w, data, 0)
    IN  Written(r.chunks \o << <<NL>> >>, r.cur)

RECURSIVE _write_curindent(_, _, _)
\* self.curindent at each out.write call of Writer._write, in call order
_write_curindent(w, data, cur) ==
    LET cur1 == cur + w.indent
        Inner(vals) ==
            [j \in 1..Len(vals) |-> _write_curindent(w, vals[j], cur1)]
    IN  IF data.kind = "dict"
        THEN LET keys == IF w.sort_keys THEN Sorted(data.keys) ELSE data.keys
                 vals == Inner([j \in 1..Len(keys) |-> OD_getitem(data, keys[j])])
             IN  <<cur1>>
                   \o Flatten([j \in 1..Len(keys) |->
                                 <<cur1, cur1, cur1>> \o vals[j] \o <<cur1>>])
                   \o <<cur, cur>>
        ELSE IF data.kind = "list"
        THEN LET vals == Inner(data.kids)
             IN  <<cur1>>
                   \o Flatten([j \in 1..Len(vals) |-> <<cur1, cur1>> \o vals[j]])
                   \o <<cur, cur, cur>>
        ELSE <<cur>>

\* Writer(out) with the default options
DefaultWriter == [indent |-> 0, sort_keys |-> FALSE, escape |-> TRUE]

(***************************************************************************)
(* Inputs.  Every run starts from one input drawn from a bounded family;   *)
(* doc records how the input was built.                                    *)
(***************************************************************************)
MaxSymLen == 4
MaxEscPieces == 3
MaxLitPieces == 3
MaxPairs == 3
MaxItems == 3
MaxWrap == 2
MaxKeyToks == 3
MaxScalarLen == 2
LongPad == 100
MaxIndent == 2
MaxWPairs == 2
MaxWItems == 2
MaxFault == 8

SeqUpTo(S, n) == UNION { [1..m -> S] : m \in 0..n }

\* Strings for the quoting decision
SymAlphabet == {MINUS, DOT, SLASH, USCORE, Cha, Ch1, SPACE}

\* Strings with the characters that end a bare symbol
MaxDelimLen == 2
Whitespace == {SPACE, TAB, NL}
Delimiters == {LBRACE, RBRACE, LPAREN, RPAREN, SEMI, COMMA, EQUALS}
DelimAlphabet == Whitespace \cup Delimiters \cup {QUOTE, BSL, DOLLAR, Cha, Ch1}

\* Short texts of any shape
MaxProgLen == 3
ProgAlphabet == Delimiters \cup {SPACE, QUOTE, Cha}

\* Pieces of strings for the escape round trip
EscPieces ==
    { <<BSL>>, <<QUOTE>>, <<Digit0, Ch1, Ch2>>, <<CapU, Digit0, Digit0, Ch4, Ch1>>,
      <<CtrlA>>, <<NL>>, <<TAB>>, <<DEL>>, <<EAcute>>, <<Emoji>>, <<Cha>>, <<SPACE>>,
      \* U+1F600 as a narrow build of Python 2 holds it: two UTF-16 code units
      <<55357, 56832>> }

\* Pieces of literals for decoding: src is the text of the piece in the literal,
\* dst the text it stands for there, qonly whether it occurs in quoted literals
\* only.
Piece(src, dst, qdst, qonly) == [src |-> src, dst |-> dst, qdst |-> qdst, qonly |-> qonly]
Same(src) == Piece(src, src, src, FALSE)
LitPieces ==
    { Same(<<Chx>>),
      Same(<<Digit0, Ch1, Ch2>>),
      Piece(<<BSL, Digit0, Ch1, Ch2>>, <<NL>>, <<NL>>, FALSE),
      Piece(<<BSL, Digit0, 55, 55>>, <<63>>, <<63>>, FALSE),
      Piece(<<BSL, CapU, Digit0, Digit0, Ch4, Ch1>>, <<ChA>>, <<ChA>>, FALSE),
      Piece(<<BSL, CapU, Digit0, Digit0, Ch5, Chc>>, <<BSL>>, <<BSL>>, FALSE),
      Same(<<BSL, Chn>>),
      Same(<<BSL, Ch1, Digit0, Digit0>>),
      Same(<<BSL, CapU, Ch4, Ch1, Chx>>),
      Piece(<<BSL, QUOTE>>, <<BSL, QUOTE>>, <<QUOTE>>, FALSE),
      Piece(<<QUOTE>>, <<QUOTE>>, <<QUOTE>>, TRUE) }

RECURSIVE PiecesSrc(_)
PiecesSrc(ps) == IF ps = <<>> THEN <<>> ELSE Head(ps).src \o PiecesSrc(Tail(ps))

RECURSIVE PiecesDst(_, _)
PiecesDst(ps, quoted) ==
    IF ps = <<>> THEN <<>>
    ELSE (IF quoted THEN Head(ps).qdst ELSE Head(ps).dst) \o PiecesDst(Tail(ps), quoted)

LitDocs ==
    { [pieces |-> ps, quoted |-> q] :
        ps \in SeqUpTo(LitPieces, MaxLitPieces), q \in BOOLEAN }

LitDocOK(d) == d.quoted \/ \A j \in 1..Len(d.pieces) : ~d.pieces[j].qonly

LitText(d) ==
    IF d.quoted THEN <<QUOTE>> \o PiecesSrc(d.pieces) \o <<QUOTE>>
    ELSE PiecesSrc(d.pieces)

\* Whitespace between the tokens of a rendered document
WsSet == { <<>>, <<SPACE>>, <<NL, TAB>> }

\* A lexeme with the node (for a key: the key) it is to be read as
Lex(l, n) == [lex |-> l, node |-> n]
KeyLex == { Lex(<<Cha>>, <<Cha>>), Lex(<<Chb>>, <<Chb>>),
            Lex(<<QUOTE, Cha, QUOTE>>, <<Cha>>) }
DupVals == { Lex(<<Ch1>>, Scalar(<<Ch1>>)), Lex(<<Ch2>>, Scalar(<<Ch2>>)),
             Lex(<<Ch2 + 1>>, Scalar(<<Ch2 + 1>>)) }
ValLex == { Lex(<<Ch1>>, Scalar(<<Ch1>>)),
            Lex(<<LBRACE, Chb, EQUALS, Ch1, SEMI, RBRACE>>,
                Dict(<< <<Chb>> >>, << Scalar(<<Ch1>>) >>)) }
ItemLex == { Lex(<<Ch1>>, Scalar(<<Ch1>>)),
             Lex(<<QUOTE, Cha, SPACE, Chb, QUOTE>>, Scalar(<<Cha, SPACE, Chb>>)) }

RECURSIVE WrapPre(_)
RECURSIVE WrapPost(_)
\* d enclosing containers around a document: ( ... ) and { k = ( ... ); }
WrapPre(d) ==
    IF d = 0 THEN <<>>
    ELSE IF d % 2 = 1 THEN WrapPre(d - 1) \o <<LPAREN>>
    ELSE WrapPre(d - 1) \o <<LBRACE, Chc, EQUALS>>
WrapPost(d) ==
    IF d = 0 THEN <<>>
    ELSE IF d % 2 = 1 THEN <<RPAREN>> \o WrapPost(d - 1)
    ELSE <<SEMI, RBRACE>> \o WrapPost(d - 1)

\* key = value of the j-th pair
PairText(d, j) ==
    d.ws \o d.pairs[j].k.lex \o d.ws \o <<EQUALS>> \o d.ws \o d.pairs[j].v.lex

\* What follows the value of the j-th pair: its ; or, for pair d.miss, d.bad
PairEnd(d, j) == IF j = d.miss THEN d.bad ELSE d.ws \o <<SEMI>>

RECURSIVE DictBody(_, _)
DictBody(d, j) ==
    IF j > Len(d.pairs) THEN <<>>
    ELSE PairText(d, j) \o PairEnd(d, j) \o DictBody(d, j + 1)

DictText(d) ==
    WrapPre(d.wrap) \o <<LBRACE>> \o DictBody(d, 1) \o d.ws \o <<RBRACE>>
      \o WrapPost(d.wrap)

\* Dicts with repeated keys, every pair with its ;
DupDocs ==
    { [pairs |-> ps, ws |-> w, miss |-> 0, bad |-> <<>>, wrap |-> 0] :
        ps \in SeqUpTo([k : KeyLex, v : DupVals], MaxPairs), w \in WsSet }

\* Dicts in which pair miss has bad in the place of its ;
SemiDocs ==
    { [pairs |-> [j \in 1..Len(vs) |->
                    [k |-> Lex(<<Cha + (j % 2)>>, <<Cha + (j % 2)>>), v |-> vs[j]]],
       ws |-> w, miss |-> m, bad |-> b, wrap |-> wr] :
        vs \in SeqUpTo(ValLex, MaxPairs), w \in WsSet, m \in 1..MaxPairs,
        b \in { <<>>, <<SPACE>>, <<COMMA>> }, wr \in 0..MaxWrap }

SemiDocOK(d) ==
    /\ d.miss <= Len(d.pairs)
    /\ d.bad = <<>> => d.miss = Len(d.pairs)

\* Lists: item j is followed by seps[j]
SepText(d, j) ==
    IF d.seps[j] = "comma" THEN d.ws \o <<COMMA>>
    ELSE IF d.seps[j] = "semi" THEN d.ws \o <<SEMI>>
    ELSE <<SPACE>>

RECURSIVE ListBody(_, _)
ListBody(d, j) ==
    IF j > Len(d.items) THEN <<>>
    ELSE d.ws \o d.items[j].lex \o SepText(d, j) \o ListBody(d, j + 1)

ListText(d) ==
    WrapPre(d.wrap) \o <<LPAREN>> \o ListBody(d, 1) \o d.ws \o <<RPAREN>>
      \o WrapPost(d.wrap)

ListDocs ==
    UNION { { [items |-> it, seps |-> sp, ws |-> w, wrap |-> wr] :
                it \in [1..n -> ItemLex], sp \in [1..n -> {"comma", "space", "semi"}],
                w \in WsSet, wr \in 0..(MaxWrap - 1) } : n \in 0..MaxItems }

\* A root value followed by trailing text
RootLex ==
    ItemLex \cup ValLex
      \cup { Lex(<<LBRACE, RBRACE>>, Dict(<<>>, <<>>)),
             Lex(<<LPAREN, RPAREN>>, List(<<>>)),
             Lex(<<LPAREN, Ch1, COMMA, Ch2, RPAREN>>,
                 List(<< Scalar(<<Ch1>>), Scalar(<<Ch2>>) >>)) }
TrailSet ==
    { <<>>, <<SPACE>>, <<NL, TAB, SPACE>>, <<SEMI>>, <<RBRACE>>, <<RPAREN>>,
      <<COMMA>>, <<SPACE, Ch1>>, <<NL, SEMI>>, <<QUOTE>>, <<SPACE, SPACE, LBRACE, RBRACE>>,
      <<LPAREN, RPAREN>>, <<EQUALS, Ch1>> }
TrailDocs == { [root |-> r, lead |-> w, trail |-> tr] :
                 r \in RootLex, w \in WsSet, tr \in TrailSet }
TrailText(d) == d.lead \o d.root.lex \o d.trail

\* A dict whose first key position holds a sequence of tokens, then = 1; }
KeyToks == { <<QUOTE, Cha, QUOTE>>, <<QUOTE, Chb, QUOTE>>, <<SEMI>>, <<SPACE>>,
             <<Cha>>, <<BSL, QUOTE>> }
KeyDocs == { [toks |-> ts] : ts \in SeqUpTo(KeyToks, MaxKeyToks) }
KeyText(d) ==
    <<LBRACE>> \o Flatten(d.toks) \o <<EQUALS, Ch1, SEMI, RBRACE>>

\* { a = 1; b = ; }
MalformedValueDoc ==
    << LBRACE, SPACE, Cha, SPACE, EQUALS, SPACE, Ch1, SEMI, SPACE, Chb, SPACE,
       EQUALS, SPACE, SEMI, SPACE, RBRACE >>

\* { name = "Foo"; widths = ( 100, 200, -50 ); nested = { x = "a\"b"; }; }
EndToEndDoc ==
    << LBRACE, SPACE, Chn, SPACE, EQUALS, SPACE, QUOTE, 70, 111, 111, QUOTE, SEMI,
       SPACE, 119, SPACE, EQUALS, SPACE, LPAREN, SPACE, Ch1, Digit0, Digit0, COMMA,
       SPACE, Ch2, Digit0, Digit0, COMMA, SPACE, MINUS, Ch5, Digit0, SPACE, RPAREN,
       SEMI, SPACE, Chx, SPACE, EQUALS, SPACE, LBRACE, SPACE, Chx, SPACE, EQUALS,
       SPACE, QUOTE, Cha, BSL, QUOTE, Chb, QUOTE, SEMI, SPACE, RBRACE, SEMI, SPACE,
       RBRACE >>

\* Documents that fail with more than ExcerptLen characters left
LongDocs ==
    { pre \o [k \in 1..LongPad |-> c] :
        pre \in { <<>>, <<LBRACE, Cha, EQUALS, Ch1>>, <<LPAREN, Ch1>>, <<Ch1, SPACE>>,
                  <<LBRACE>> },
        c \in { SEMI, SPACE, Chx } }

ExampleDocs == { MalformedValueDoc, EndToEndDoc } \cup LongDocs

\* Scalars and trees for the round trip
RTAlphabet == { BSL, QUOTE, SPACE, NL, LBRACE, RBRACE, LPAREN, RPAREN, SEMI, COMMA,
                EQUALS, Cha }
RTScalars == SeqUpTo(RTAlphabet, MaxScalarLen)
SmallScalars == { <<>>, <<Cha>>, <<Chb, SPACE>>, <<Cha, BSL>> }
TreesOver(scalars) ==
    { Scalar(v) : v \in scalars }
      \cup { List(<< Scalar(v) >>) : v \in scalars }
      \cup { List(<< Scalar(a), Scalar(b) >>) : a \in SmallScalars, b \in SmallScalars }
      \cup { Dict(<<k>>, << Scalar(v) >>) : k \in scalars, v \in SmallScalars }
      \cup { Dict(<<k>>, << Scalar(v) >>) : k \in SmallScalars, v \in scalars }
      \cup { Dict(<<k>>, << List(<< Scalar(v), Scalar(k) >>) >>) :
               k \in SmallScalars, v \in scalars }
      \cup { List(<< Dict(<<k>>, << Scalar(v) >>), Scalar(k) >>) :
               k \in SmallScalars, v \in scalars }
      \cup { Dict(<<ks[1], ks[2]>>, << Scalar(a), Dict(<<ks[1]>>, << Scalar(b) >>) >>) :
               ks \in { q \in SmallScalars \X SmallScalars : q[1] # q[2] },
               a \in SmallScalars, b \in SmallScalars }

\* Trees for the writer: scalars that are written as they are and scalars
\* that are quoted, keys in and out of sorted order (one a prefix of another),
\* containers of 0..MaxWItems elements, nested up to three deep
WLeaves == { Scalar(<<Cha>>), Scalar(<<Chb, SPACE>>) }
WKeyNames == { <<Cha>>, <<Chb>>, <<Cha, Chb>> }
WKeys ==
    { ks \in SeqUpTo(WKeyNames, MaxWPairs) :
        \A i, j \in 1..Len(ks) : i # j => ks[i] # ks[j] }
WFlat ==
    WLeaves
      \cup { List(items) : items \in SeqUpTo(WLeaves, MaxWItems) }
      \cup { Dict(ks, [j \in 1..Len(ks) |-> v]) : ks \in WKeys, v \in WLeaves }
WEmpty == { List(<<>>), Dict(<<>>, <<>>) }
WTrees ==
    WFlat
      \cup { List(<<x>>) : x \in WFlat }
      \cup { List(<<x, Scalar(<<Cha>>)>>) : x \in WFlat }
      \cup { Dict(ks, [j \in 1..Len(ks) |-> x]) : ks \in WKeys \ {<<>>}, x \in WFlat }
      \cup { List(<< Dict(<< <<Chc>> >>, <<e>>) >>) : e \in WEmpty }
      \cup { Dict(<< <<Chc>> >>, << List(<<e, e>>) >>) : e \in WEmpty }

\* An empty dict or list, with or without a space inside, in d enclosing
\* containers
EmptyDocs == [kind : {"dict", "list"}, inner : {<<>>, <<SPACE>>}, wrap : 0..MaxWrap]
EmptyText(d) ==
    WrapPre(d.wrap)
      \o (IF d.kind = "dict" THEN <<LBRACE>> \o d.inner \o <<RBRACE>>
          ELSE <<LPAREN>> \o d.inner \o <<RPAREN>>)
      \o WrapPost(d.wrap)

\* Lexemes of atoms: bare, quoted, with an escaped quote, with escapes, empty,
\* with delimiters inside
RawLex ==
    { <<Cha>>, <<MINUS, Ch1, DOT, Ch5>>,
      <<QUOTE, Cha, SPACE, Chb, QUOTE>>,
      <<QUOTE, Cha, BSL, QUOTE, Chb, QUOTE>>,
      <<QUOTE, BSL, Digit0, Ch1, Ch2, QUOTE>>,
      <<QUOTE, BSL, CapU, Digit0, Digit0, Ch4, Ch1, QUOTE>>,
      <<QUOTE, QUOTE>>,
      <<QUOTE, SEMI, RBRACE, EQUALS, QUOTE>> }

\* Documents for the raw mode: { k = v; }, ( v, v ), the dicts of KeyDocs and
\* the two examples
RawPairDocs == [k : RawLex, v : RawLex, ws : WsSet]
RawPairText(d) ==
    <<LBRACE>> \o d.ws \o d.k \o d.ws \o <<EQUALS>> \o d.ws \o d.v \o d.ws \o <<SEMI>>
      \o d.ws \o <<RBRACE>>
RawListDocs == { [items |-> it] : it \in [1..2 -> RawLex] }
RawListText(d) == <<LPAREN>> \o d.items[1] \o <<COMMA, SPACE>> \o d.items[2] \o <<RPAREN>>

\* Trees written to a sink that fails
WFaultTrees ==
    { Scalar(<<Cha>>), List(<<>>), Dict(<<>>, <<>>),
      Dict(<< <<Chb>>, <<Cha>> >>, << Scalar(<<Cha>>), List(<< Scalar(<<Cha>>) >>) >>) }

\* Valid documents as sequences of tokens, with the tree they denote; a
\* layout puts whitespace before the first token, between two tokens and
\* after the last one
WsKeys == { Lex(<<Cha>>, <<Cha>>),
            Lex(<<QUOTE, Cha, SPACE, Chb, QUOTE>>, <<Cha, SPACE, Chb>>) }
WsVals == { Lex(<<Ch1>>, Scalar(<<Ch1>>)),
            Lex(<<QUOTE, Chb, BSL, QUOTE, Chc, QUOTE>>, Scalar(<<Chb, QUOTE, Chc>>)) }
WsShapes ==
    { [toks |-> << v.lex >>, node |-> v.node] : v \in WsVals }
    \cup { [toks |-> << <<LBRACE>>, k.lex, <<EQUALS>>, v.lex, <<SEMI>>, <<RBRACE>> >>,
            node |-> Dict(<< k.node >>, << v.node >>)] : k \in WsKeys, v \in WsVals }
    \cup { [toks |-> << <<LPAREN>>, v.lex, <<COMMA>>, w.lex, <<RPAREN>> >>,
            node |-> List(<< v.node, w.node >>)] : v, w \in WsVals }
    \cup { [toks |-> << <<LBRACE>>, <<Cha>>, <<EQUALS>>, <<LPAREN>>, <<RPAREN>>, <<SEMI>>,
                        <<Chb>>, <<EQUALS>>, <<LBRACE>>, <<RBRACE>>, <<SEMI>>, <<RBRACE>> >>,
            node |-> Dict(<< <<Cha>>, <<Chb>> >>, << List(<<>>), Dict(<<>>, <<>>) >>)] }
Layouts(toks) ==
    IF Len(toks) <= 6 THEN [1..(Len(toks) + 1) -> WsSet]
    ELSE { [j \in 1..(Len(toks) + 1) |-> IF j = at THEN ws ELSE other] :
           at \in 1..(Len(toks) + 1), ws \in WsSet, other \in WsSet }
RECURSIVE LayoutText(_, _, _)
LayoutText(toks, gaps, j) ==
    IF j > Len(toks) THEN gaps[j]
    ELSE gaps[j] \o toks[j] \o LayoutText(toks, gaps, j + 1)

\* Trees written by a Writer that has been used before
WAgainTrees ==
    { Scalar(<<Cha>>), List(<< Scalar(<<Chb, SPACE>>) >>),
      Dict(<< <<Cha>> >>, << List(<<>>) >>) }

(***************************************************************************)
(* The objects of dump: containers are cells of a heap, addressed from 1,  *)
(* and hold in each slot a leaf or the address of another container.      *)
(***************************************************************************)
Ref(a) == [ref |-> a, typ |-> "", val |-> <<>>]
Leaf(ty, v) == [ref |-> 0, typ |-> ty, val |-> v]
Cell(kind, ks, slots) == [kind |-> kind, keys |-> ks, slots |-> slots]

\* The addresses of the containers reachable from those of todo
RECURSIVE Reach(_, _, _)
Reach(h, todo, seen) ==
    IF todo = {} THEN seen
    ELSE LET a == CHOOSE x \in todo : TRUE
             refs == { h[a].slots[j].ref : j \in 1..Len(h[a].slots) } \ {0}
         IN  Reach(h, (todo \cup refs) \ (seen \cup {a}), seen \cup {a})

\* copy.copy(obj): a new root container whose slots hold the same objects
deepcopy_root_only(h, obj) ==
    [heap |-> Append(h, h[obj]), obj |-> Len(h) + 1]

\* deepcopy(obj): every container reachable from obj is copied once to a new
\* cell (the memo keeps shared containers shared); leaves are immutable
deepcopy(h, obj) ==
    LET R == Reach(h, {obj}, {})
        memo(a) == Len(h) + Cardinality({ b \in R : b <= a })
        orig(n) == CHOOSE a \in R : memo(a) = n
        copyslot(sl) == IF sl.ref = 0 THEN sl ELSE Ref(memo(sl.ref))
        copy(a) == Cell(h[a].kind, h[a].keys,
                        [j \in 1..Len(h[a].slots) |-> copyslot(h[a].slots[j])])
    IN  [heap |-> [n \in 1..(Len(h) + Cardinality(R)) |->
                      IF n <= Len(h) THEN h[n] ELSE copy(orig(n))],
         obj |-> memo(obj)]

\* The slots, reachable from obj, that hold a leaf that is not a string
TypedSlots(h, obj) ==
    UNION { { <<a, j>> : j \in { k \in 1..Len(h[a].slots) :
                                    /\ h[a].slots[k].ref = 0
                                    /\ h[a].slots[k].typ # "str" } } :
            a \in Reach(h, {obj}, {}) }

\* uncast_data(obj): every typed leaf reachable from obj is replaced in its
\* container by its string; a failure leaves any part of them replaced
uncast_data(h, obj) ==
    LET typed == TypedSlots(h, obj)
        after(done) ==
            [n \in 1..Len(h) |->
                Cell(h[n].kind, h[n].keys,
                     [j \in 1..Len(h[n].slots) |->
                         IF <<n, j>> \in done THEN Leaf("str", h[n].slots[j].val)
                         ELSE h[n].slots[j]])]
    IN  { [heap |-> after(done), exc |-> IF done = typed THEN "" ELSE "TypeError"] :
          done \in SUBSET typed }

\* The tree of the container at address a
RECURSIVE HeapNode(_, _)
HeapNode(h, a) ==
    LET kid(sl) == IF sl.ref = 0 THEN Scalar(sl.val) ELSE HeapNode(h, sl.ref)
        kids == [j \in 1..Len(h[a].slots) |-> kid(h[a].slots[j])]
    IN  IF h[a].kind = "dict" THEN Dict(h[a].keys, kids) ELSE List(kids)

\* Heaps of a caller of dump: typed leaves at the root and below it, a
\* container that is shared, no typed leaf at all, a container that is not
\* part of the object
DumpLeaves == { Leaf("int", <<Ch1>>), Leaf("bool", <<Ch1>>), Leaf("str", <<Chb, SPACE>>) }
DumpHeaps ==
    { << Cell("dict", << <<Cha>> >>, << l >>) >> : l \in DumpLeaves }
    \cup { << Cell("dict", << <<Cha>>, <<Chb>> >>, << Ref(2), l1 >>),
              Cell("list", <<>>, << l2 >>) >> : l1, l2 \in DumpLeaves }
    \cup { << Cell("list", <<>>, << Ref(2), Ref(2) >>),
              Cell("dict", << <<Cha>> >>, << l >>) >> : l \in DumpLeaves }
    \cup { << Cell("list", <<>>, << l1 >>),
              Cell("list", <<>>, << l2 >>) >> : l1, l2 \in DumpLeaves }

(***************************************************************************)
(* Writer.write statement by statement, for calls that run in two threads. *)
(* A call is a sequence of statements; each one reads or assigns           *)
(* self.curindent, assigns the local pad, or calls a method of the sink.   *)
(***************************************************************************)
Stmt(op, data) == [op |-> op, data |-> data]

RECURSIVE Stmts(_, _)
\* The statements that Writer._write executes for data
Stmts(w, data) ==
    LET keys == IF w.sort_keys THEN Sorted(data.keys) ELSE data.keys
    IN  IF data.kind = "dict"
        THEN << Stmt("inc", <<>>), Stmt("pad", <<>>), Stmt("write", <<LBRACE, NL>>) >>
               \o Flatten([j \in 1..Len(keys) |->
                     << Stmt("write_pad", <<>>),
                        Stmt("write", _write_atom(w, keys[j])),
                        Stmt("write", <<SPACE, EQUALS, SPACE>>) >>
                       \o Stmts(w, OD_getitem(data, keys[j]))
                       \o << Stmt("write", <<SEMI, NL>>) >>])
               \o << Stmt("dec", <<>>), Stmt("write_cur", <<>>),
                     Stmt("write", <<RBRACE>>), Stmt("ret", <<>>) >>
        ELSE IF data.kind = "list"
        THEN << Stmt("inc", <<>>), Stmt("pad", <<>>), Stmt("write", <<LPAREN>>) >>
               \o Flatten([j \in 1..Len(data.kids) |->
                     << Stmt("write", IF j = 1 THEN <<NL>> ELSE <<COMMA, NL>>),
                        Stmt("write_pad", <<>>) >>
                       \o Stmts(w, data.kids[j])])
               \o << Stmt("dec", <<>>), Stmt("write", <<NL>>), Stmt("write_cur", <<>>),
                     Stmt("write", <<RPAREN>>), Stmt("ret", <<>>) >>
        ELSE << Stmt("write", _write_atom(w, data.val)) >>

\* The statements of Writer.write(data)
write_stmts(w, data) ==
    << Stmt("reset", <<>>) >> \o Stmts(w, data)
      \o << Stmt("write", <<NL>>), Stmt("flush", <<>>) >>

\* Mutant of curindent_of: curindent is one cell shared by all the Writers
curindent_of_class(th) == 1

\* The cell that holds self.curindent for the Writer of the call of thread
\* th: an attribute of the instance, assigned in __init__
curindent_of(th) == th

\* A call of Writer.write(data) on a new Writer(out, **w), and a call of
\* Parser(unescape=un).parse(txt), before their first statement
WriteCall(w, data) ==
    [kind |-> "write", w |-> w, data |-> data, stmts |-> write_stmts(w, data),
     ip |-> 1, pads |-> <<>>, out |-> <<>>, un |-> FALSE, txt |-> <<>>,
     ret |-> [none |-> TRUE]]
ParseCallOf(un, txt) ==
    [kind |-> "parse", w |-> DefaultWriter, data |-> NoNode, stmts |-> <<>>,
     ip |-> 1, pads |-> <<>>, out |-> <<>>, un |-> un, txt |-> txt,
     ret |-> [none |-> TRUE]]

\* The calls of a thread: trees with nested containers, documents that parse
\* and documents that do not
ThreadCalls ==
    { WriteCall([indent |-> ind, sort_keys |-> FALSE, escape |-> TRUE], d) :
        ind \in 0..MaxIndent,
        d \in { Scalar(<<Cha>>), List(<< Scalar(<<Cha>>), List(<<>>) >>),
                Dict(<< <<Cha>> >>, << Dict(<< <<Chb>> >>, << Scalar(<<Ch1>>) >>) >>) } }
    \cup { ParseCallOf(un, txt) :
             un \in BOOLEAN,
             txt \in { <<LBRACE, Cha, EQUALS, QUOTE, BSL, Digit0, Ch1, Ch2, QUOTE, SEMI, RBRACE>>,
                       <<LPAREN, Cha, COMMA, RPAREN>> } }

(***************************************************************************)
(* builder/kerning.py.  A dict is a function from its keys; kerning_data   *)
(* is the sequence of its (left, right, value) items in iteration order.   *)
(***************************************************************************)
MMK_L == <<64, 77, 77, 75, USCORE, 76, USCORE>>
MMK_R == <<64, 77, 77, 75, USCORE, 82, USCORE>>
PublicKern == <<112, 117, 98, 108, 105, 99, DOT, 107, 101, 114, 110>>
EmptyDict == [k \in {} |-> 0]

StartsWith(name, pre) == Len(name) >= Len(pre) /\ SubSeq(name, 1, Len(pre)) = pre

\* .+ or .* from offset i: up to the next newline or the end of the string
DotRun(name, i) ==
    LET j == CHOOSE e \in i..Len(name) :
                 /\ \A k \in (i + 1)..e : name[k] # NL
                 /\ e < Len(name) => name[e + 1] = NL
    IN  SubSeq(name, i + 1, j)

\* re.match(r'@MMK_L_(.+)', name) with pre the literal prefix: whether it
\* matches and its group 1
MMK_match(pre, name) ==
    LET g == IF StartsWith(name, pre) THEN DotRun(name, Len(pre)) ELSE <<>>
    IN  [m |-> g # <<>>, g1 |-> g]

\* UFO_KERN_GROUP_PATTERN.match(name): whether it matches, groups 1 and 2
UFO_KERN_GROUP_PATTERN(name) ==
    LET n == Len(PublicKern)
        ok == /\ StartsWith(name, PublicKern)
              /\ Len(name) >= n + 2
              /\ name[n + 1] \in {Ch1, Ch2}
              /\ name[n + 2] = DOT
              /\ \A k \in (n + 3)..Len(name) : name[k] # NL
    IN  [m |-> ok,
         g1 |-> IF ok THEN name[n + 1] ELSE 0,
         g2 |-> IF ok THEN SubSeq(name, n + 3, Len(name)) ELSE <<>>]

\* 'public.kern1.%s' % group and 'public.kern2.%s' % group
public_kern(side, group) == PublicKern \o <<side, DOT>> \o group

dict_set(d, k, v) == [x \in DOMAIN d \cup {k} |-> IF x = k THEN v ELSE d[x]]
dict_del(d, k) == [x \in DOMAIN d \ {k} |-> d[x]]

\* The first loop of to_ufo_kerning from the j-th item on: ufo.kerning and
\* class_glyph_pairs
RECURSIVE KerningItems(_, _, _, _)
KerningItems(kerning_data, j, kerning, class_glyph_pairs) ==
    IF j > Len(kerning_data) THEN [kerning |-> kerning, pairs |-> class_glyph_pairs]
    ELSE LET lm == MMK_match(MMK_L, kerning_data[j][1])
             rm == MMK_match(MMK_R, kerning_data[j][2])
             left == IF lm.m THEN public_kern(Ch1, lm.g1) ELSE kerning_data[j][1]
             right == IF rm.m THEN public_kern(Ch2, rm.g1) ELSE kerning_data[j][2]
             pair == IF lm.m THEN <<left, right, TRUE>> ELSE <<right, left, FALSE>>
         IN  KerningItems(kerning_data, j + 1,
                          dict_set(kerning, <<left, right>>, kerning_data[j][3]),
                          IF lm.m # rm.m THEN Append(class_glyph_pairs, pair)
                          ELSE class_glyph_pairs)

\* The loop over the members of the class in _remove_rule_if_conflict
RECURSIVE MemberLoop(_, _, _, _, _, _, _, _)
MemberLoop(kerning, seen, old_glyphs, j, glyph, is_left_class, rule, new_glyphs) ==
    IF j > Len(old_glyphs) THEN [new_glyphs |-> new_glyphs, seen |-> seen]
    ELSE LET member == old_glyphs[j]
             pair == IF is_left_class THEN <<member, glyph>> ELSE <<glyph, member>>
         IN  IF /\ pair \in DOMAIN seen
                /\ seen[pair][3] # rule[3]
                /\ pair \notin DOMAIN kerning
             THEN MemberLoop(kerning, seen, old_glyphs, j + 1, glyph, is_left_class,
                             rule, new_glyphs)
             ELSE MemberLoop(kerning, dict_set(seen, pair, rule), old_glyphs, j + 1,
                             glyph, is_left_class, rule, Append(new_glyphs, member))

\* for member in new_glyphs: ufo.kerning[pair] = val
SplitRule(kerning, new_glyphs, glyph, is_left_class, val) ==
    LET pairOf(m) == IF is_left_class THEN <<m, glyph>> ELSE <<glyph, m>>
        added == { pairOf(new_glyphs[j]) : j \in 1..Len(new_glyphs) }
    IN  [x \in DOMAIN kerning \cup added |->
            IF x \in added THEN val ELSE kerning[x]]

\* Mutant of _remove_rule_if_conflict: no rule is ever changed
_remove_rule_never(u, seen, classname, glyph, is_left_class) ==
    [kerning |-> u.kerning, seen |-> seen]

\* _remove_rule_if_conflict: ufo.kerning and seen when it returns
_remove_rule_if_conflict(u, seen, classname, glyph, is_left_class) ==
    LET original_pair == IF is_left_class THEN <<classname, glyph>>
                         ELSE <<glyph, classname>>
        val == u.kerning[original_pair]
        rule == original_pair \o <<val>>
    IN  IF classname \notin DOMAIN u.groups THEN [kerning |-> u.kerning, seen |-> seen]
        ELSE LET old_glyphs == u.groups[classname]
                 r == MemberLoop(u.kerning, seen, old_glyphs, 1, glyph, is_left_class,
                                 rule, <<>>)
             IN  [kerning |->
                     IF r.new_glyphs # old_glyphs
                     THEN SplitRule(dict_del(u.kerning, original_pair), r.new_glyphs,
                                    glyph, is_left_class, val)
                     ELSE u.kerning,
                  seen |-> r.seen]

\* The second loop of to_ufo_kerning: class_glyph_pairs from the j-th down
RECURSIVE ReversedPairs(_, _, _, _)
ReversedPairs(u, seen, class_glyph_pairs, j) ==
    IF j = 0 THEN u
    ELSE LET r == _remove_rule_if_conflict(u, seen, class_glyph_pairs[j][1],
                                           class_glyph_pairs[j][2],
                                           class_glyph_pairs[j][3])
         IN  ReversedPairs([u EXCEPT !.kerning = r.kerning], r.seen,
                           class_glyph_pairs, j - 1)

\* to_ufo_kerning(self, ufo, kerning_data): the ufo when it returns
to_ufo_kerning(u, kerning_data) ==
    LET first == KerningItems(kerning_data, 1, u.kerning, <<>>)
    IN  ReversedPairs([u EXCEPT !.kerning = first.kerning], EmptyDict,
                      first.pairs, Len(first.pairs))

\* Mutant of GlyphsKey: the whole name of the group follows the prefix
GlyphsKey_keeps_prefix(prefix, name) ==
    IF UFO_KERN_GROUP_PATTERN(name).m THEN prefix \o name ELSE name

\* The key of to_glyphs_kerning for a side: '@MMK_L_{}' or '@MMK_R_{}' with
\* group 2 of the pattern, the name itself when the pattern does not match
GlyphsKey(prefix, name) ==
    IF UFO_KERN_GROUP_PATTERN(name).m
    THEN prefix \o UFO_KERN_GROUP_PATTERN(name).g2
    ELSE name

\* self.font.setKerningForPair(master.id, left, right, value): the kerning
\* of the master after the call
setKerningForPair(master_kerning, left, right, value) ==
    dict_set(master_kerning, <<left, right>>, value)

\* The loop of to_glyphs_kerning over the items of ufo.kerning that are in
\* todo.  The inputs give distinct items distinct Glyphs keys, so that the
\* order of the items does not show.
RECURSIVE GlyphsItems(_, _, _)
GlyphsItems(kerning, todo, master_kerning) ==
    IF todo = {} THEN master_kerning
    ELSE LET p == CHOOSE x \in todo : TRUE
         IN  GlyphsItems(kerning, todo \ {p},
                         setKerningForPair(master_kerning, GlyphsKey(MMK_L, p[1]),
                                           GlyphsKey(MMK_R, p[2]), kerning[p]))

\* to_glyphs_kerning(self, ufo, master): the kerning of the master
to_glyphs_kerning(u, master_kerning) ==
    GlyphsItems(u.kerning, DOMAIN u.kerning, master_kerning)

\* Kerning data: glyphs a, b, c, g, the left classes x = [a, b] and z = [b, c],
\* the right class y = [g, c]; z may be missing from ufo.groups
MaxKern == 3
KernGlyph(c) == <<c>>
KernLeft == { KernGlyph(Cha), KernGlyph(Chb), MMK_L \o <<Chx>>, MMK_L \o <<122>> }
KernRight == { KernGlyph(103), MMK_R \o <<121>> }
KernValues == { 10, 20 }
KernItems == KernLeft \X KernRight \X KernValues
\* The items of a nested dict: no key twice, the items of a left key together
KernDataOK(kd) ==
    /\ \A i, j \in 1..Len(kd) : i < j => <<kd[i][1], kd[i][2]>> # <<kd[j][1], kd[j][2]>>
    /\ \A i, j \in 1..Len(kd) :
          (i < j /\ kd[i][1] = kd[j][1]) => \A k \in i..j : kd[k][1] = kd[i][1]
\* Kerning data of four rules, two of a left class with g and two of a
\* glyph with the right class y, in every order and with every value
KernChains ==
    LET pairs == << <<KernGlyph(Chb), MMK_R \o <<121>> >>,
                    <<MMK_L \o <<Chx>>, KernGlyph(103)>>,
                    <<KernGlyph(Cha), MMK_R \o <<121>> >>,
                    <<MMK_L \o <<122>>, KernGlyph(103)>> >>
        n == Len(pairs)
        orders == { o \in [1..n -> 1..n] : \A i, j \in 1..n : i # j => o[i] # o[j] }
    IN  { [i \in 1..n |-> <<pairs[o[i]][1], pairs[o[i]][2], v[i]>>] :
              o \in orders, v \in [1..n -> KernValues] }

KernGroups ==
    LET x == public_kern(Ch1, <<Chx>>)
        z == public_kern(Ch1, <<122>>)
        y == public_kern(Ch2, <<121>>)
        full == [k \in {x, y, z} |->
                    IF k = x THEN << KernGlyph(Cha), KernGlyph(Chb) >>
                    ELSE IF k = z THEN << KernGlyph(Chb), KernGlyph(Chc) >>
                    ELSE << KernGlyph(103), KernGlyph(Chc) >>]
    IN  { full, [k \in {x, y} |-> full[k]] }

(***************************************************************************)
(* Custom parameters: builder/custom_params.py and builder/font.py.  An    *)
(* attribute of ufo.info or a custom parameter that is None is a key the   *)
(* dict does not have; parameter names are strings.                        *)
(***************************************************************************)
MaxWin == 2
GLYPHS_PREFIX == "com.schriftgestaltung."
abs(value) == IF value < 0 THEN -value ELSE value

\* The attributes ufo.info has among the names the handlers below write
InfoAttrs == {"openTypeOS2WinAscent", "openTypeOS2WinDescent"}
hasattr(attrs, name) == name \in attrs

WinNames == <<"winAscent", "winDescent">>

\* The value of the custom parameter called name: the first of that name
HasParam(customParameters, name) ==
    \E j \in 1..Len(customParameters) : customParameters[j][1] = name
ParamValue(customParameters, name) ==
    LET j == CHOOSE x \in 1..Len(customParameters) :
                 /\ customParameters[x][1] = name
                 /\ \A y \in 1..(x - 1) : customParameters[y][1] # name
    IN  customParameters[j][2]

\* value_to_ufo and value_to_glyphs of the handlers of winAscent, winDescent
win_value_to_ufo(value) == -abs(value)
win_value_to_glyphs(value) == abs(value)

\* ParamHandler(glyphs_name, ufo_name, value_to_ufo=..., value_to_glyphs=abs)
\* as registered for glyphs_name in ('winAscent', 'winDescent')
WinHandler(glyphs_name) ==
    [glyphs_name |-> glyphs_name,
     ufo_name |-> "openTypeOS2W" \o Tail(glyphs_name),
     ufo_prefix |-> GLYPHS_PREFIX,
     ufo_info |-> TRUE]

_write_to_ufo(handler, u, value) ==
    IF handler.ufo_info /\ hasattr(InfoAttrs, handler.ufo_name)
    THEN [u EXCEPT !.info = dict_set(u.info, handler.ufo_name, value)]
    ELSE [u EXCEPT !.lib = dict_set(u.lib, handler.ufo_prefix \o handler.ufo_name, value)]

\* ParamHandler.to_ufo(glyphs, ufo)
ParamHandler_to_ufo(handler, customParameters, u) ==
    IF ~HasParam(customParameters, handler.glyphs_name) THEN u
    ELSE _write_to_ufo(handler, u,
                       win_value_to_ufo(ParamValue(customParameters, handler.glyphs_name)))

\* ParamHandler.to_glyphs(glyphs, ufo): the customParameters of glyphs
ParamHandler_to_glyphs(handler, g, u) ==
    LET in_info == handler.ufo_info /\ hasattr(InfoAttrs, handler.ufo_name)
        from == IF in_info THEN u.info ELSE u.lib
        key == IF in_info THEN handler.ufo_name
               ELSE handler.ufo_prefix \o handler.ufo_name
    IN  IF key \notin DOMAIN from THEN g
        ELSE [g EXCEPT !.customParameters =
                  dict_set(g.customParameters, handler.glyphs_name,
                           win_value_to_glyphs(from[key]))]

\* for handler in KNOWN_FAMILY_PARAM_HANDLERS: handler.to_ufo(font, ufo),
\* the handlers those of WinNames from the j-th on
RECURSIVE HandlersToUfo(_, _, _)
HandlersToUfo(customParameters, j, u) ==
    IF j > Len(WinNames) THEN u
    ELSE HandlersToUfo(customParameters, j + 1,
                       ParamHandler_to_ufo(WinHandler(WinNames[j]), customParameters, u))

\* for handler in KNOWN_FAMILY_PARAM_HANDLERS: handler.to_glyphs(font, ufo)
RECURSIVE HandlersToGlyphs(_, _, _)
HandlersToGlyphs(u, j, g) ==
    IF j > Len(WinNames) THEN g
    ELSE HandlersToGlyphs(u, j + 1, ParamHandler_to_glyphs(WinHandler(WinNames[j]), g, u))

\* The pairs of opentype_attr_prefix_pairs in set_custom_params that are a
\* prefix of a name of the family
opentype_attr_prefix_pairs == << <<"hhea", "Hhea">>, <<"typo", "OS2Typo">>, <<"win", "OS2Win">> >>

\* re.sub('^' + glyphs_prefix, 'openType' + ufo_prefix, name) for each pair
\* from the j-th on
RECURSIVE PrefixSub(_, _)
PrefixSub(name, j) ==
    IF j > Len(opentype_attr_prefix_pairs) THEN name
    ELSE LET pre == opentype_attr_prefix_pairs[j][1]
             rep == "openType" \o opentype_attr_prefix_pairs[j][2]
         IN  PrefixSub(IF StartsWith(name, pre)
                       THEN rep \o SubSeq(name, Len(pre) + 1, Len(name))
                       ELSE name,
                       j + 1)

\* set_custom_params(ufo, parsed=parsed) from the j-th pair of parsed on
RECURSIVE set_custom_params(_, _, _)
set_custom_params(u, parsed, j) ==
    IF j > Len(parsed) THEN u
    ELSE LET name == PrefixSub(parsed[j][1], 1)
             v == parsed[j][2]
             value == IF StartsWith(name, "openTypeOS2Win") /\ v < 0 THEN -v ELSE v
         IN  set_custom_params(
                 IF hasattr(InfoAttrs, name)
                 THEN [u EXCEPT !.info = dict_set(u.info, name, value)]
                 ELSE [u EXCEPT !.lib = dict_set(u.lib, GLYPHS_PREFIX \o name, value)],
                 parsed, j + 1)

\* The custom parameters of a font: each name of WinNames at most once, in
\* either order
WinParams ==
    LET vals == (-MaxWin)..MaxWin
        one == { << <<n, v>> >> : n \in { WinNames[j] : j \in 1..Len(WinNames) }, v \in vals }
        two == { << <<n[1], v1>>, <<n[2], v2>> >> :
                    n \in { WinNames, <<WinNames[2], WinNames[1]>> },
                    v1 \in vals, v2 \in vals }
    IN  {<<>>} \cup one \cup two

(***************************************************************************)
(* Glyph widths: builder/glyph.py.  glyph holds the category and the       *)
(* subCategory the glyph overrides (None: no key), glyphinfo what          *)
(* glyphdata.get_glyph gives for its name.                                 *)
(***************************************************************************)
MaxWidth == 2
GLYPHLIB_PREFIX == GLYPHS_PREFIX \o "Glyphs."
ORIGINAL_WIDTH_KEY == GLYPHLIB_PREFIX \o "originalWidth"

\* glyph.category if it is not None, else glyphinfo.category, which is None
\* ("" here) for a name glyphdata does not know
CategoryOf(obj, glyphinfo, key) ==
    IF key \in DOMAIN obj THEN obj[key]
    ELSE IF key \in DOMAIN glyphinfo THEN glyphinfo[key] ELSE ""

\* to_ufo_glyph(self, ufo_glyph, layer, glyph): the category overrides and
\* the width
to_ufo_glyph(ufo_glyph, layer, glyph, glyphinfo) ==
    LET category == CategoryOf(glyph, glyphinfo, "category")
        lib1 == IF "category" \in DOMAIN glyph
                THEN dict_set(ufo_glyph.lib, GLYPHLIB_PREFIX \o "category", glyph.category)
                ELSE ufo_glyph.lib
        subCategory == CategoryOf(glyph, glyphinfo, "subCategory")
        lib2 == IF "subCategory" \in DOMAIN glyph
                THEN dict_set(lib1, GLYPHLIB_PREFIX \o "subCategory", glyph.subCategory)
                ELSE lib1
    IN  IF "width" \notin DOMAIN layer
        THEN [ufo_glyph EXCEPT !.lib = lib2]
        ELSE IF category = "Mark" /\ subCategory = "Nonspacing" /\ layer.width > 0
        THEN [ufo_glyph EXCEPT !.lib = dict_set(lib2, ORIGINAL_WIDTH_KEY, layer.width),
                               !.width = 0]
        ELSE [ufo_glyph EXCEPT !.lib = lib2, !.width = layer.width]

\* Mutant of to_glyphs_glyph: the original width is not restored
to_glyphs_glyph_no_restore(ufo_glyph, glyph, glyphinfo) ==
    [glyph |-> glyph, layer |-> [width |-> ufo_glyph.width]]

\* to_glyphs_glyph(self, ufo_glyph, ufo_layer, master): the glyph and its
\* layer, glyph the GSGlyph found or created
to_glyphs_glyph(ufo_glyph, glyph, glyphinfo) ==
    LET cat_key == GLYPHLIB_PREFIX \o "category"
        sub_key == GLYPHLIB_PREFIX \o "subCategory"
        glyph1 == IF cat_key \in DOMAIN ufo_glyph.lib
                  THEN dict_set(glyph, "category", ufo_glyph.lib[cat_key]) ELSE glyph
        category == IF cat_key \in DOMAIN ufo_glyph.lib THEN ufo_glyph.lib[cat_key]
                    ELSE CategoryOf(EmptyDict, glyphinfo, "category")
        glyph2 == IF sub_key \in DOMAIN ufo_glyph.lib
                  THEN dict_set(glyph1, "subCategory", ufo_glyph.lib[sub_key]) ELSE glyph1
        sub_category == IF sub_key \in DOMAIN ufo_glyph.lib THEN ufo_glyph.lib[sub_key]
                        ELSE CategoryOf(EmptyDict, glyphinfo, "subCategory")
        width == ufo_glyph.width
    IN  [glyph |-> glyph2,
         layer |-> [width |->
                      IF /\ category = "Mark" /\ sub_category = "Nonspacing" /\ width = 0
                         /\ ORIGINAL_WIDTH_KEY \in DOMAIN ufo_glyph.lib
                      THEN ufo_glyph.lib[ORIGINAL_WIDTH_KEY]
                      ELSE width]]

\* Glyphs: the overrides a glyph may have, what glyphdata may know of it
Categories == {"Mark", "Letter"}
SubCategories == {"Nonspacing", "Spacing"}
OptionalPairs(cats, subs) ==
    {EmptyDict}
      \cup { [k \in {"category"} |-> c] : c \in cats }
      \cup { [k \in {"subCategory"} |-> sc] : sc \in subs }
      \cup { [category |-> c, subCategory |-> sc] : c \in cats, sc \in subs }

(***************************************************************************)
(* Master user data: builder/user_data.py.  ufo.lib and userData are       *)
(* dicts; res.exc is the exception that leaves the function, "" if none.   *)
(***************************************************************************)
MaxData == 2
MASTER_USER_DATA_KEY == GLYPHS_PREFIX \o "fontMaster.userData"

\* to_ufo_master_user_data(_context, ufo, master): ufo.lib
to_ufo_master_user_data(lib, user_data) ==
    IF user_data # EmptyDict
    THEN dict_set(lib, MASTER_USER_DATA_KEY, [key \in DOMAIN user_data |-> user_data[key]])
    ELSE lib

\* to_glyphs_master_user_data(_context, ufo, master): master.userData
to_glyphs_master_user_data(lib, master_userData) ==
    IF MASTER_USER_DATA_KEY \notin DOMAIN lib
    THEN [exc |-> "KeyError", userData |-> master_userData]
    ELSE LET user_data == lib[MASTER_USER_DATA_KEY]
         IN  [exc |-> "",
              userData |-> IF user_data # EmptyDict THEN user_data ELSE master_userData]

\* The user data of a master: values under some of three keys
UserDataKeys == {"a", "b", "c"}
UserData ==
    UNION { [ks -> 0..MaxData] : ks \in SUBSET UserDataKeys }

(***************************************************************************)
(* The state machine.                                                      *)
(***************************************************************************)
NoOutcome == [ok |-> FALSE, value |-> NoNode, i |-> 0, msg |-> "", excerpt |-> <<>>]
NoDecoded == [exc |-> "", val |-> <<>>]
NoDoc == [none |-> TRUE]

\* Parser() and Writer(out) as loads and dump construct them
NewParser == [unescape |-> TRUE]
NewWriter == [indent |-> DefaultWriter.indent, sort_keys |-> DefaultWriter.sort_keys,
              escape |-> DefaultWriter.escape, curindent |-> 0]

\* The sink never raises
NoFault == -1
NoHeap == <<>>

\* Nothing has been called yet
NoCalls == <<>>
NoObject == [none |-> TRUE]

Quiet ==
    /\ pc = "start"
    /\ calls = NoCalls
    /\ ufo = NoObject
    /\ glyphs = NoObject
    /\ esc = <<>>
    /\ dec = NoDecoded
    /\ pres = NoOutcome
    /\ out = <<>>
    /\ raised = ""

Idle ==
    /\ Quiet
    /\ parser = NewParser
    /\ writer = NewWriter
    /\ heap = NoHeap
    /\ fault = NoFault

InitCodec ==
    /\ Idle
    /\ \/ /\ fam = "sym"
          /\ s \in SeqUpTo(SymAlphabet, MaxSymLen)
          /\ doc = NoDoc
       \/ /\ fam = "esc"
          /\ \E ps \in SeqUpTo(EscPieces, MaxEscPieces) : s = Flatten(ps)
          /\ doc = NoDoc
       \/ /\ fam = "lit"
          /\ \E d \in LitDocs : LitDocOK(d) /\ doc = d /\ s = LitText(d)
    /\ text = <<>>
    /\ tree = NoNode

InitParse ==
    /\ Idle
    /\ \/ fam = "dup" /\ \E d \in DupDocs : doc = d /\ text = DictText(d)
       \/ fam = "semi" /\ \E d \in SemiDocs : SemiDocOK(d) /\ doc = d /\ text = DictText(d)
       \/ fam = "list" /\ \E d \in ListDocs : doc = d /\ text = ListText(d)
       \/ fam = "trail" /\ \E d \in TrailDocs : doc = d /\ text = TrailText(d)
       \/ fam = "key" /\ \E d \in KeyDocs : doc = d /\ text = KeyText(d)
       \/ fam = "example" /\ doc = NoDoc /\ text \in ExampleDocs
    /\ s = <<>>
    /\ tree = NoNode

InitRoundTrip ==
    /\ Idle
    /\ fam = "tree"
    /\ doc = NoDoc
    /\ tree \in TreesOver(RTScalars)
    /\ s = <<>>
    /\ text = <<>>

\* A Writer with any options writes a tree to a sink that may fail
InitWriter ==
    /\ Quiet
    /\ parser = NewParser
    /\ heap = NoHeap
    /\ \E ind \in 0..MaxIndent, sk \in BOOLEAN, e \in BOOLEAN :
          writer = [indent |-> ind, sort_keys |-> sk, escape |-> e, curindent |-> 0]
    /\ \/ fam = "wtree" /\ tree \in WTrees /\ fault = NoFault
       \/ fam = "wfault" /\ tree \in WFaultTrees /\ fault \in 0..MaxFault
    /\ doc = NoDoc
    /\ s = <<>>
    /\ text = <<>>

\* A text is parsed and the tree is written: empty containers with a Parser()
\* and any Writer, other documents with Parser(unescape=False) and
\* Writer(escape=False) as _parse_write_no_escape constructs them
InitNormalize ==
    /\ Quiet
    /\ heap = NoHeap
    /\ fault = NoFault
    /\ \/ /\ fam = "empty"
          /\ \E d \in EmptyDocs : doc = d /\ text = EmptyText(d)
          /\ parser = NewParser
          /\ \E ind \in 0..MaxIndent, sk \in BOOLEAN, e \in BOOLEAN :
                writer = [indent |-> ind, sort_keys |-> sk, escape |-> e,
                          curindent |-> 0]
       \/ /\ fam = "raw"
          /\ \/ \E d \in RawPairDocs : doc = d /\ text = RawPairText(d)
             \/ \E d \in RawListDocs : doc = d /\ text = RawListText(d)
             \/ \E d \in KeyDocs : doc = d /\ text = KeyText(d)
             \/ doc = NoDoc /\ text \in { MalformedValueDoc, EndToEndDoc }
          /\ parser = [unescape |-> FALSE]
          /\ \E ind \in 0..MaxIndent :
                writer = [indent |-> ind, sort_keys |-> FALSE, escape |-> FALSE,
                          curindent |-> 0]
    /\ s = <<>>
    /\ tree = NoNode

\* dump(obj, fp, **kwargs): the object is the container at address 1 of the
\* caller's heap, writer holds the keyword arguments and the sink may fail
InitDump ==
    /\ Quiet
    /\ parser = NewParser
    /\ fam = "dump"
    /\ heap \in DumpHeaps
    /\ doc = [obj |-> 1, before |-> heap]
    /\ fault \in {NoFault} \cup 0..MaxFault
    /\ \E ind \in 0..MaxIndent, sk \in BOOLEAN, e \in BOOLEAN :
          writer = [indent |-> ind, sort_keys |-> sk, escape |-> e, curindent |-> 0]
    /\ s = <<>>
    /\ text = <<>>
    /\ tree = NoNode

\* A valid document in one of its layouts is parsed
InitWhitespace ==
    /\ Idle
    /\ fam = "ws"
    /\ \E sh \in WsShapes : \E gaps \in Layouts(sh.toks) :
          /\ doc = [toks |-> sh.toks, node |-> sh.node, gaps |-> gaps]
          /\ text = LayoutText(sh.toks, gaps, 1)
    /\ s = <<>>
    /\ tree = NoNode

\* A Writer writes a tree to a sink that may fail, and then another tree
InitRewrite ==
    /\ Quiet
    /\ parser = NewParser
    /\ heap = NoHeap
    /\ fam = "wagain"
    /\ \E ind \in 0..MaxIndent, sk \in BOOLEAN, e \in BOOLEAN :
          writer = [indent |-> ind, sort_keys |-> sk, escape |-> e, curindent |-> 0]
    /\ tree \in WFaultTrees
    /\ fault \in {NoFault} \cup 0..MaxFault
    /\ \E t \in WAgainTrees : doc = [next |-> t]
    /\ s = <<>>
    /\ text = <<>>

\* Two threads, each about to make one call on its own objects
InitConcurrent ==
    /\ pc = "start"
    /\ fam = "conc"
    /\ \E c1 \in ThreadCalls, c2 \in ThreadCalls :
          calls = [th |-> <<c1, c2>>, curindent |-> <<0, 0>>]
    /\ ufo = NoObject
    /\ glyphs = NoObject
    /\ esc = <<>>
    /\ dec = NoDecoded
    /\ pres = NoOutcome
    /\ out = <<>>
    /\ raised = ""
    /\ parser = NewParser
    /\ writer = NewWriter
    /\ heap = NoHeap
    /\ fault = NoFault
    /\ doc = NoDoc
    /\ s = <<>>
    /\ text = <<>>
    /\ tree = NoNode

\* No call of the parser, of the writer or of dump is made
NoCore ==
    /\ pc = "start"
    /\ calls = NoCalls
    /\ esc = <<>>
    /\ dec = NoDecoded
    /\ pres = NoOutcome
    /\ out = <<>>
    /\ raised = ""
    /\ parser = NewParser
    /\ writer = NewWriter
    /\ heap = NoHeap
    /\ fault = NoFault
    /\ s = <<>>
    /\ text = <<>>
    /\ tree = NoNode

\* The kerning of a master is about to be written to a UFO that has its
\* groups and no kerning yet
InitKerning ==
    /\ NoCore
    /\ fam = "kern"
    /\ \E kd \in SeqUpTo(KernItems, MaxKern) \cup KernChains :
          KernDataOK(kd) /\ doc = [kerning_data |-> kd]
    /\ \E g \in KernGroups : ufo = [kerning |-> EmptyDict, groups |-> g]
    /\ glyphs = [kerning |-> EmptyDict]

\* The custom parameters of a font are about to be written to a UFO whose
\* info and lib are empty
InitParams ==
    /\ NoCore
    /\ fam = "params"
    /\ \E cp \in WinParams : doc = [customParameters |-> cp]
    /\ ufo = [info |-> EmptyDict, lib |-> EmptyDict]
    /\ glyphs = [customParameters |-> EmptyDict]

\* A layer of a glyph is about to be written to a new UFO glyph
InitGlyph ==
    /\ NoCore
    /\ fam = "glyph"
    /\ \E g \in OptionalPairs(Categories, SubCategories),
          gi \in OptionalPairs(Categories, SubCategories),
          w \in (-MaxWidth)..MaxWidth :
            doc = [glyph |-> g, glyphinfo |-> gi, layer |-> [width |-> w]]
    /\ ufo = [width |-> 0, lib |-> EmptyDict]
    /\ glyphs = NoObject

\* The user data of a master is about to be written to the lib of its UFO,
\* and read from it into a new master
InitUserData ==
    /\ NoCore
    /\ fam = "userdata"
    /\ \E ud \in UserData : doc = [userData |-> ud]
    /\ ufo = [lib |-> EmptyDict]
    /\ glyphs = [userData |-> EmptyDict]

\* A scalar is about to be written: one the writer may leave bare, or one
\* with characters that end a bare symbol
InitSymbols ==
    /\ Idle
    /\ \/ fam = "sym" /\ s \in SeqUpTo(SymAlphabet, MaxSymLen)
       \/ fam = "delim" /\ s \in SeqUpTo(DelimAlphabet, MaxDelimLen)
    /\ doc = NoDoc
    /\ text = <<>>
    /\ tree = NoNode

\* A text is about to be parsed: one of the families of documents, or a
\* short text of any shape
InitProgress ==
    \/ InitParse
    \/ /\ Idle
       /\ fam = "any"
       /\ text \in SeqUpTo(ProgAlphabet, MaxProgLen)
       /\ doc = NoDoc
       /\ s = <<>>
       /\ tree = NoNode

Init ==
    \/ InitCodec \/ InitParse \/ InitRoundTrip \/ InitWriter \/ InitNormalize
    \/ InitDump \/ InitWhitespace \/ InitRewrite \/ InitConcurrent \/ InitKerning
    \/ InitParams \/ InitGlyph \/ InitUserData \/ InitSymbols \/ InitProgress

\* Parser.unescape_text(t): the value returned or the exception raised
Decoded(t) ==
    [exc |-> unescape_raises(t),
     val |-> IF unescape_raises(t) = "" THEN unescape_text(t) ELSE <<>>]

\* esc = Writer.escape_text(s)
Escape ==
    /\ pc = "start"
    /\ fam \in {"sym", "esc", "delim"}
    /\ esc' = escape_text(s)
    /\ pc' = "escaped"
    /\ UNCHANGED <<fam, doc, calls, ufo, glyphs, s, dec, text, pres, tree, out, parser, writer,
                 heap, fault, raised>>

\* dec = Parser.unescape_text(esc)
Unescape ==
    /\ pc = "escaped"
    /\ dec' = Decoded(esc)
    /\ pc' = "decoded"
    /\ UNCHANGED <<fam, doc, calls, ufo, glyphs, s, esc, text, pres, tree, out, parser, writer,
                 heap, fault, raised>>

\* dec = Parser.unescape_text(s), s a literal of the source text
UnescapeLiteral ==
    /\ pc = "start"
    /\ fam = "lit"
    /\ dec' = Decoded(s)
    /\ pc' = "decoded"
    /\ UNCHANGED <<fam, doc, calls, ufo, glyphs, s, esc, text, pres, tree, out, parser, writer,
                 heap, fault, raised>>

\* pres = parser.parse(text)
Parse ==
    /\ pc = "start"
    /\ fam \in {"dup", "semi", "list", "trail", "key", "example", "ws"}
    /\ pres' = parse(parser.unescape, text)
    /\ pc' = "parsed"
    /\ UNCHANGED <<fam, doc, calls, ufo, glyphs, s, esc, dec, text, tree, out, parser, writer,
                 heap, fault, raised>>

WriteOp(chunk) == [op |-> "write", data |-> chunk]
FlushOp == [op |-> "flush", data |-> <<>>]

\* The text the sink holds
SinkText(ops) ==
    Flatten([j \in 1..Len(ops) |-> ops[j].data])

\* Mutant of SinkOps: the sink is not flushed
SinkOps_without_flush(chunks, f) ==
    IF f = NoFault \/ f >= Len(chunks)
    THEN [j \in 1..Len(chunks) |-> WriteOp(chunks[j])]
    ELSE [j \in 1..f |-> WriteOp(chunks[j])]

\* The operations Writer.write performs on the sink that accepts f writes
\* (out.write raises at the next one, and write does not get to the flush)
SinkOps(chunks, f) ==
    IF f = NoFault \/ f >= Len(chunks)
    THEN [j \in 1..Len(chunks) |-> WriteOp(chunks[j])] \o <<FlushOp>>
    ELSE [j \in 1..f |-> WriteOp(chunks[j])]

\* writer.write(tree)
Write ==
    /\ pc = "start"
    /\ fam \in {"tree", "wtree", "wfault", "wagain"}
    /\ LET r == write(writer, tree)
           failed == fault # NoFault /\ fault < Len(r.chunks)
           curs == _write_curindent(writer, tree, 0) \o <<r.cur>>
       IN  /\ out' = out \o SinkOps(r.chunks, fault)
           /\ writer' = [writer EXCEPT
                            !.curindent = IF failed THEN curs[fault + 1] ELSE r.cur]
           /\ raised' = IF failed THEN "IOError" ELSE ""
    /\ pc' = "written"
    /\ UNCHANGED <<fam, doc, calls, ufo, glyphs, s, esc, dec, text, pres, tree, parser, heap, fault>>

\* writer.write(doc.next) on the Writer of the earlier call, the sink
\* accepting every write; text is what the sink received during the call
WriteAgain ==
    /\ pc = "written"
    /\ fam = "wagain"
    /\ LET r == write(writer, doc.next)
       IN  /\ out' = out \o SinkOps(r.chunks, NoFault)
           /\ text' = Flatten(r.chunks)
           /\ writer' = [writer EXCEPT !.curindent = r.cur]
           /\ raised' = ""
    /\ pc' = "rewritten"
    /\ UNCHANGED <<fam, doc, calls, ufo, glyphs, s, esc, dec, pres, tree, parser, heap, fault>>

\* pres = parser.parse(the text written)
Reparse ==
    /\ pc = "written"
    /\ raised = ""
    /\ text' = SinkText(out)
    /\ pres' = parse(parser.unescape, SinkText(out))
    /\ pc' = "reparsed"
    /\ UNCHANGED <<fam, doc, calls, ufo, glyphs, s, esc, dec, tree, out, parser, writer,
                 heap, fault, raised>>

\* w.write(p.parse(text)): the tree parsed is kept in tree
ParseWrite ==
    /\ pc = "start"
    /\ fam \in {"empty", "raw"}
    /\ pres' = parse(parser.unescape, text)
    /\ IF pres'.ok
       THEN LET r == write(writer, pres'.value)
            IN  /\ tree' = pres'.value
                /\ out' = out \o SinkOps(r.chunks, fault)
                /\ writer' = [writer EXCEPT !.curindent = r.cur]
                /\ raised' = ""
       ELSE /\ raised' = "ValueError"
            /\ UNCHANGED <<tree, out, writer>>
    /\ pc' = "normalized"
    /\ UNCHANGED <<fam, doc, calls, ufo, glyphs, s, esc, dec, text, parser, heap, fault>>

\* w.write(p.parse(text)) again, with the same p and w, on the text written
ParseWriteAgain ==
    /\ pc = "normalized"
    /\ raised = ""
    /\ text' = SinkText(out)
    /\ pres' = parse(parser.unescape, text')
    /\ IF pres'.ok
       THEN LET r == write(writer, pres'.value)
            IN  /\ out' = out \o SinkOps(r.chunks, fault)
                /\ writer' = [writer EXCEPT !.curindent = r.cur]
                /\ raised' = ""
       ELSE /\ raised' = "ValueError"
            /\ UNCHANGED <<out, writer>>
    /\ pc' = "renormalized"
    /\ UNCHANGED <<fam, doc, calls, ufo, glyphs, s, esc, dec, tree, parser, heap, fault>>

\* dump(obj, fp, **kwargs) from its first statement to its return or to the
\* exception that leaves it: the copy, uncast_data on the copy, the write
DumpTo(f) ==
    LET cp == deepcopy(heap, doc.obj)
    IN  \E u \in uncast_data(cp.heap, cp.obj) :
          /\ heap' = u.heap
          /\ IF u.exc # ""
             THEN /\ raised' = u.exc
                  /\ UNCHANGED <<tree, out, writer>>
             ELSE LET data == HeapNode(u.heap, cp.obj)
                      r == write(writer, data)
                      failed == f # NoFault /\ f < Len(r.chunks)
                      curs == _write_curindent(writer, data, 0) \o <<r.cur>>
                  IN  /\ tree' = data
                      /\ out' = out \o SinkOps(r.chunks, f)
                      /\ writer' = [writer EXCEPT !.curindent =
                                       IF failed THEN curs[f + 1] ELSE r.cur]
                      /\ raised' = IF failed THEN "IOError" ELSE ""

\* dump(obj, fp, **kwargs)
Dump ==
    /\ pc = "start"
    /\ fam = "dump"
    /\ DumpTo(fault)
    /\ pc' = "dumped"
    /\ UNCHANGED <<fam, doc, calls, ufo, glyphs, s, esc, dec, text, pres, parser, fault>>

\* text = dumps(obj, **kwargs), the sink a BytesIO
Dumps ==
    /\ pc = "start"
    /\ fam = "dump"
    /\ fault = NoFault
    /\ DumpTo(NoFault)
    /\ text' = IF raised' = "" THEN SinkText(out') ELSE text
    /\ pc' = "returned"
    /\ UNCHANGED <<fam, doc, calls, ufo, glyphs, s, esc, dec, pres, parser, fault>>

\* Thread th executes the next statement of its Writer.write call
WriteStep(th) ==
    /\ fam = "conc"
    /\ calls.th[th].kind = "write"
    /\ calls.th[th].ip <= Len(calls.th[th].stmts)
    /\ LET c == calls.th[th]
           st == c.stmts[c.ip]
           cell == curindent_of(th)
           cur == calls.curindent[cell]
           cur2 == IF st.op = "reset" THEN 0
                   ELSE IF st.op = "inc" THEN cur + c.w.indent
                   ELSE IF st.op = "dec" THEN cur - c.w.indent
                   ELSE cur
           pads2 == IF st.op = "pad" THEN Append(c.pads, Spaces(cur))
                    ELSE IF st.op = "ret" THEN SubSeq(c.pads, 1, Len(c.pads) - 1)
                    ELSE c.pads
           out2 == IF st.op = "write" THEN Append(c.out, WriteOp(st.data))
                   ELSE IF st.op = "write_pad"
                   THEN Append(c.out, WriteOp(c.pads[Len(c.pads)]))
                   ELSE IF st.op = "write_cur" THEN Append(c.out, WriteOp(Spaces(cur)))
                   ELSE IF st.op = "flush" THEN Append(c.out, FlushOp)
                   ELSE c.out
       IN  calls' = [calls EXCEPT
                        !.th[th] = [c EXCEPT !.ip = c.ip + 1, !.pads = pads2,
                                             !.out = out2],
                        !.curindent[cell] = cur2]
    /\ UNCHANGED <<pc, fam, doc, ufo, glyphs, s, esc, dec, text, pres, tree, out,
                   parser, writer, heap, fault, raised>>

\* Thread th enters Parser.parse, and later leaves it with a tree or a failure
ParseStep(th) ==
    /\ fam = "conc"
    /\ calls.th[th].kind = "parse"
    /\ calls.th[th].ip <= 2
    /\ LET c == calls.th[th]
       IN  calls' = [calls EXCEPT
                        !.th[th] = [c EXCEPT
                                       !.ip = c.ip + 1,
                                       !.ret = IF c.ip = 2 THEN parse(c.un, c.txt)
                                               ELSE c.ret]]
    /\ UNCHANGED <<pc, fam, doc, ufo, glyphs, s, esc, dec, text, pres, tree, out,
                   parser, writer, heap, fault, raised>>

WriteSteps == \E th \in 1..2 : WriteStep(th)
ParseSteps == \E th \in 1..2 : ParseStep(th)

\* to_ufo_kerning(self, ufo, kerning_data)
ToUfoKerning ==
    /\ pc = "start"
    /\ fam = "kern"
    /\ ufo' = to_ufo_kerning(ufo, doc.kerning_data)
    /\ pc' = "ufo"
    /\ UNCHANGED <<fam, doc, calls, glyphs, s, esc, dec, text, pres, tree, out,
                   parser, writer, heap, fault, raised>>

\* to_glyphs_kerning(self, ufo, master)
ToGlyphsKerning ==
    /\ pc = "ufo"
    /\ fam = "kern"
    /\ glyphs' = [glyphs EXCEPT !.kerning = to_glyphs_kerning(ufo, glyphs.kerning)]
    /\ pc' = "glyphs"
    /\ UNCHANGED <<fam, doc, calls, ufo, s, esc, dec, text, pres, tree, out,
                   parser, writer, heap, fault, raised>>

\* to_ufo_custom_params: the handlers registered in custom_params.py
ToUfoCustomParams ==
    /\ pc = "start"
    /\ fam = "params"
    /\ ufo' = HandlersToUfo(doc.customParameters, 1, ufo)
    /\ pc' = "ufo"
    /\ UNCHANGED <<fam, doc, calls, glyphs, s, esc, dec, text, pres, tree, out,
                   parser, writer, heap, fault, raised>>

\* set_custom_params(ufo, parsed=custom_params) of font.py
SetCustomParams ==
    /\ pc = "start"
    /\ fam = "params"
    /\ ufo' = set_custom_params(ufo, doc.customParameters, 1)
    /\ pc' = "ufo_font"
    /\ UNCHANGED <<fam, doc, calls, glyphs, s, esc, dec, text, pres, tree, out,
                   parser, writer, heap, fault, raised>>

\* to_glyphs_family_custom_params on the UFO the handlers wrote
ToGlyphsCustomParams ==
    /\ pc = "ufo"
    /\ fam = "params"
    /\ glyphs' = HandlersToGlyphs(ufo, 1, glyphs)
    /\ pc' = "glyphs"
    /\ UNCHANGED <<fam, doc, calls, ufo, s, esc, dec, text, pres, tree, out,
                   parser, writer, heap, fault, raised>>

\* to_ufo_glyph(ufo_glyph, layer, glyph)
ToUfoGlyph ==
    /\ pc = "start"
    /\ fam = "glyph"
    /\ ufo' = to_ufo_glyph(ufo, doc.layer, doc.glyph, doc.glyphinfo)
    /\ pc' = "ufo"
    /\ UNCHANGED <<fam, doc, calls, glyphs, s, esc, dec, text, pres, tree, out,
                   parser, writer, heap, fault, raised>>

\* to_glyphs_glyph(ufo_glyph, ufo_layer, master) in a font that does not
\* have the glyph yet
ToGlyphsGlyph ==
    /\ pc = "ufo"
    /\ fam = "glyph"
    /\ glyphs' = to_glyphs_glyph(ufo, EmptyDict, doc.glyphinfo)
    /\ pc' = "glyphs"
    /\ UNCHANGED <<fam, doc, calls, ufo, s, esc, dec, text, pres, tree, out,
                   parser, writer, heap, fault, raised>>

\* to_ufo_master_user_data(context, ufo, master)
ToUfoMasterUserData ==
    /\ pc = "start"
    /\ fam = "userdata"
    /\ ufo' = [ufo EXCEPT !.lib = to_ufo_master_user_data(ufo.lib, doc.userData)]
    /\ pc' = "ufo"
    /\ UNCHANGED <<fam, doc, calls, glyphs, s, esc, dec, text, pres, tree, out,
                   parser, writer, heap, fault, raised>>

\* to_glyphs_master_user_data(context, ufo, master)
ToGlyphsMasterUserData ==
    /\ pc = "ufo"
    /\ fam = "userdata"
    /\ LET res == to_glyphs_master_user_data(ufo.lib, glyphs.userData)
       IN  /\ glyphs' = [glyphs EXCEPT !.userData = res.userData]
           /\ raised' = res.exc
    /\ pc' = "glyphs"
    /\ UNCHANGED <<fam, doc, calls, ufo, s, esc, dec, text, pres, tree, out,
                   parser, writer, heap, fault>>

NextCodec == Escape \/ Unescape \/ UnescapeLiteral
\* pres = parser.parse(text), calls the offsets the scan went through
ParseOffsets ==
    /\ pc = "start"
    /\ fam \in {"dup", "semi", "list", "trail", "key", "example", "any"}
    /\ pres' = parse(parser.unescape, text)
    /\ calls' = _parse_offsets(text, 0)
    /\ pc' = "scanned"
    /\ UNCHANGED <<fam, doc, ufo, glyphs, s, esc, dec, text, tree, out, parser, writer,
                   heap, fault, raised>>

NextProgress == ParseOffsets
NextSymbols == Escape \/ Unescape
NextParse == Parse
NextRoundTrip == Write \/ Reparse
NextNormalize == ParseWrite \/ ParseWriteAgain
NextDump == Dump \/ Dumps
NextRewrite == Write \/ WriteAgain
NextConcurrent == WriteSteps \/ ParseSteps
NextKerning == ToUfoKerning \/ ToGlyphsKerning
NextGlyph == ToUfoGlyph \/ ToGlyphsGlyph
NextUserData == ToUfoMasterUserData \/ ToGlyphsMasterUserData
NextParams == ToUfoCustomParams \/ SetCustomParams \/ ToGlyphsCustomParams
Next ==
    \/ NextCodec \/ NextParse \/ NextRoundTrip \/ NextNormalize \/ NextDump
    \/ NextRewrite \/ NextConcurrent \/ NextKerning
    \/ NextParams \/ NextGlyph \/ NextUserData \/ NextSymbols \/ NextProgress

Spec == Init /\ [][Next]_vars
SpecCodec == InitCodec /\ [][NextCodec]_vars
SpecParse == InitParse /\ [][NextParse]_vars
SpecRoundTrip == InitRoundTrip /\ [][NextRoundTrip]_vars
SpecWriter == InitWriter /\ [][NextRoundTrip]_vars
SpecNormalize == InitNormalize /\ [][NextNormalize]_vars
SpecDump == InitDump /\ [][NextDump]_vars
SpecWhitespace == InitWhitespace /\ [][NextParse]_vars
SpecRewrite == InitRewrite /\ [][NextRewrite]_vars
SpecConcurrent == InitConcurrent /\ [][NextConcurrent]_vars
SpecKerning == InitKerning /\ [][NextKerning]_vars
SpecParams == InitParams /\ [][NextParams]_vars
SpecGlyph == InitGlyph /\ [][NextGlyph]_vars
SpecUserData == InitUserData /\ [][NextUserData]_vars
SpecSymbols == InitSymbols /\ [][NextSymbols]_vars
SpecProgress == InitProgress /\ [][NextProgress]_vars

(***************************************************************************)
(* The escape codec: C2, C4, C10                                           *)
(***************************************************************************)

\* C2: for every string s, Parser.unescape_text(Writer.escape_text(s)) returns s
\* (control characters, DEL, code points above 0x7E and above 0xFFFF, double
\* quotes, and a backslash followed by text that looks like an escape).
C2_EscapeRoundTrip ==
    (pc = "decoded" /\ fam \in {"sym", "esc"}) => (dec.exc = "" /\ dec.val = s)

\* The escaped text is wrapped in double quotes / is written as it is
Quoted(data, e) == e = <<QUOTE>> \o data \o <<QUOTE>>
Unquoted(data, e) == e = data

IsIdentChar(c) == IsAlnum(c) \/ c \in {USCORE, SLASH, DOT}

\* d without its leading -, if it has one
Unsigned(d) == IF d # <<>> /\ d[1] = MINUS THEN Tail(d) ELSE d

\* The pattern as the claim words it: a decimal number with an optional
\* fractional part
ClaimedNumber(b) ==
    \E n \in 1..Len(b) :
        /\ \A k \in 1..n : IsDigit(b[k])
        /\ \/ n = Len(b)
           \/ /\ n + 2 <= Len(b)
              /\ b[n + 1] = DOT
              /\ \A k \in (n + 2)..Len(b) : IsDigit(b[k])

\* The pattern as the claim words it: an identifier of letters, digits,
\* underscore, slash or period that starts with a letter, digit, underscore or
\* slash
ClaimedIdentifier(b) ==
    /\ b # <<>>
    /\ \A k \in 1..Len(b) : IsIdentChar(b[k])
    /\ b[1] # DOT

ClaimedSymbol(d) == ClaimedNumber(Unsigned(d)) \/ ClaimedIdentifier(Unsigned(d))

\* C4 as stated: a scalar is left unquoted iff its escaped text is an optional
\* leading - followed by a decimal number or by an identifier of letters,
\* digits, underscore, slash or period starting with a letter, digit,
\* underscore or slash; every other value is wrapped in double quotes.
C4_QuotingAsStated ==
    (pc = "escaped") =>
        IF ClaimedSymbol(EscapeSub(s)) THEN Unquoted(EscapeSub(s), esc)
        ELSE Quoted(EscapeSub(s), esc)

\* Digits with at most one period among them and at least one digit:
\* 12, 12., 12.5, .5
AmendedNumber(b) ==
    /\ \A k \in 1..Len(b) : IsDigit(b[k]) \/ b[k] = DOT
    /\ Cardinality({ k \in 1..Len(b) : b[k] = DOT }) <= 1
    /\ \E k \in 1..Len(b) : IsDigit(b[k])

\* Letters, digits, underscore, period, and a slash as the first character only
AmendedIdentifier(d) ==
    /\ d # <<>>
    /\ \A k \in 1..Len(d) : IsIdentChar(d[k])
    /\ \A k \in 2..Len(d) : d[k] # SLASH

\* C4 as amended: a scalar is left unquoted iff its escaped text is either an
\* optional leading - followed by a number (digits with at most one period
\* among them, before, between or after the digits), or an identifier with no
\* leading -, made of letters, digits, underscore and period, whose first
\* character may also be a slash; every other value (the empty string, any
\* value with a space) is wrapped in double quotes.
C4_QuotingDecision ==
    (pc = "escaped") =>
        IF AmendedNumber(Unsigned(EscapeSub(s))) \/ AmendedIdentifier(EscapeSub(s))
        THEN Unquoted(EscapeSub(s), esc)
        ELSE Quoted(EscapeSub(s), esc)

\* escape_text has quoted -a and left .a unquoted
C4_Witness ==
    /\ pc = "escaped"
    /\ \/ s = <<MINUS, Cha>> /\ esc = <<QUOTE, MINUS, Cha, QUOTE>>
       \/ s = <<DOT, Cha>> /\ esc = <<DOT, Cha>>

\* C10: unescape_text strips the outer quotes of a quoted literal and replaces
\* every backslash-quote in it by a quote, and then, in quoted and bare text
\* alike, replaces backslash 0 and two octal digits by the character of that
\* octal value and backslash U and four hexadecimal digits by the character of
\* that code unit, in one pass from left to right; every other backslash
\* sequence is passed through unchanged and raises nothing.
C10_Decoding ==
    (pc = "decoded" /\ fam = "lit" /\ s # <<>>) =>
        /\ dec.exc = ""
        /\ dec.val = PiecesDst(doc.pieces, doc.quoted)

\* A quoted literal with a backslash-quote, an octal escape and another
\* backslash sequence has been decoded
C10_Witness ==
    /\ pc = "decoded"
    /\ fam = "lit"
    /\ doc.quoted
    /\ Len(doc.pieces) = 3
    /\ doc.pieces[1].src = <<BSL, QUOTE>>
    /\ doc.pieces[2].src = <<BSL, Digit0, Ch1, Ch2>>
    /\ doc.pieces[3].src = <<BSL, Chn>>
    /\ dec.val = <<QUOTE, NL, BSL, Chn>>

\* The text between the outer quotes of e when escape_text has quoted it, e
\* itself otherwise
EscapedBody(e) ==
    IF Len(e) >= 2 /\ e[1] = QUOTE /\ e[Len(e)] = QUOTE
    THEN SubSeq(e, 2, Len(e) - 1) ELSE e

\* The value of the octal digits b[off+1..off+n] / of the hexadecimal digits
DigitsValue(b, off, n, base) ==
    LET d(k) == IF b[off + k] \in 48..57 THEN b[off + k] - 48
                ELSE IF b[off + k] \in 65..70 THEN b[off + k] - 55
                ELSE b[off + k] - 87
        val[k \in 0..n] == IF k = 0 THEN 0 ELSE base * val[k - 1] + d(k)
    IN  val[n]

RECURSIVE EncodedAsClaimed(_, _, _, _)
\* b from offset off on is the encoding of the characters k.. of sq, each
\* character encoded as the claim words it
EncodedAsClaimed(sq, k, b, off) ==
    IF k > Len(sq) THEN off = Len(b)
    ELSE LET c == sq[k]
         IN  IF c = QUOTE
             THEN /\ off + 2 <= Len(b)
                  /\ b[off + 1] = BSL /\ b[off + 2] = QUOTE
                  /\ EncodedAsClaimed(sq, k + 1, b, off + 2)
             ELSE IF c \in 32..126 \/ c = TAB
             THEN /\ off + 1 <= Len(b)
                  /\ b[off + 1] = c
                  /\ EncodedAsClaimed(sq, k + 1, b, off + 1)
             ELSE IF c < 32
             THEN \* backslash and exactly three octal digits
                  /\ off + 4 <= Len(b)
                  /\ b[off + 1] = BSL
                  /\ \A j \in 2..4 : b[off + j] \in 48..55
                  /\ DigitsValue(b, off + 1, 3, 8) = c
                  /\ EncodedAsClaimed(sq, k + 1, b, off + 4)
             ELSE \* backslash, U and exactly four hexadecimal digits
                  /\ off + 6 <= Len(b)
                  /\ b[off + 1] = BSL /\ b[off + 2] = CapU
                  /\ \A j \in 3..6 : IsHexDigit(b[off + j])
                  /\ DigitsValue(b, off + 2, 4, 16) = c
                  /\ EncodedAsClaimed(sq, k + 1, b, off + 6)

\* C11: escape_text escapes every character outside 0x20-0x7E other than tab,
\* as a backslash and exactly three octal digits below 0x20 and as backslash, U
\* and exactly four hexadecimal digits otherwise, writes the double quote as
\* backslash-quote and copies every other character; so the escaped text holds
\* only characters of 0x20-0x7E and tabs (code points above 0xFFFF included).
C11_Encoding ==
    (pc = "escaped" /\ fam = "esc") =>
        /\ EncodedAsClaimed(s, 1, EscapedBody(esc), 0)
        /\ \A k \in 1..Len(esc) : esc[k] \in 32..126 \/ esc[k] = TAB

(***************************************************************************)
(* The parser: C3, C5, C6, C7, C8, C9                                      *)
(***************************************************************************)
\* The positions of key k among the pairs of a rendered dict
Occurrences(d, k) == { j \in 1..Len(d.pairs) : d.pairs[j].k.node = k }
FirstOcc(d, k) == CHOOSE j \in Occurrences(d, k) : \A m \in Occurrences(d, k) : j <= m
LastOcc(d, k) == CHOOSE j \in Occurrences(d, k) : \A m \in Occurrences(d, k) : j >= m

\* C3: when a dict assigns the same key more than once, the parsed Mapping
\* holds that key once, at the position of its first occurrence relative to the
\* other keys, with the value of its last occurrence, for any number of
\* repetitions and any interleaving with other keys.
C3_DuplicateKeys ==
    (pc = "parsed" /\ fam = "dup") =>
        /\ pres.ok
        /\ pres.value.kind = "dict"
        /\ Len(pres.value.kids) = Len(pres.value.keys)
        /\ LET ks == pres.value.keys
           IN  /\ \A a, b \in 1..Len(ks) : a # b => ks[a] # ks[b]
               /\ { ks[a] : a \in 1..Len(ks) }
                    = { doc.pairs[j].k.node : j \in 1..Len(doc.pairs) }
               /\ \A a, b \in 1..Len(ks) :
                     a < b => FirstOcc(doc, ks[a]) < FirstOcc(doc, ks[b])
               /\ \A a \in 1..Len(ks) :
                     pres.value.kids[a] = doc.pairs[LastOcc(doc, ks[a])].v.node

\* { a = 1; b = 2; a = 3; } has been parsed to keys [a, b] with a = 3
C3_Witness ==
    /\ pc = "parsed"
    /\ fam = "dup"
    /\ doc.ws = <<SPACE>>
    /\ Len(doc.pairs) = 3
    /\ doc.pairs[1] = [k |-> Lex(<<Cha>>, <<Cha>>), v |-> Lex(<<Ch1>>, Scalar(<<Ch1>>))]
    /\ doc.pairs[2] = [k |-> Lex(<<Chb>>, <<Chb>>), v |-> Lex(<<Ch2>>, Scalar(<<Ch2>>))]
    /\ doc.pairs[3].k.lex = <<Cha>>
    /\ doc.pairs[3].v.lex = <<Ch2 + 1>>
    /\ pres.value = Dict(<< <<Cha>>, <<Chb>> >>, << Scalar(<<Ch2 + 1>>), Scalar(<<Ch2>>) >>)

RECURSIVE GrammarBareEnd(_, _)
\* bare-symbol := one-or-more of [-_./$A-Za-z0-9]
GrammarBareEnd(t, i) ==
    IF i < Len(t) /\ (IsAlnum(t[i + 1]) \/ t[i + 1] \in {MINUS, USCORE, DOT, SLASH, DOLLAR})
    THEN GrammarBareEnd(t, i + 1) ELSE i

RECURSIVE GrammarQuotedEnd(_, _)
\* quoted-string := '"' ( any-char-except-unescaped-quote )* '"', the opening
\* quote before offset i: the offset after the closing quote
GrammarQuotedEnd(t, i) ==
    IF i >= Len(t) THEN NoMatch
    ELSE IF t[i + 1] = QUOTE /\ t[i] # BSL THEN i + 1
    ELSE GrammarQuotedEnd(t, i + 1)

RECURSIVE GrammarSkip(_, _)
GrammarSkip(t, i) ==
    IF i < Len(t) /\ t[i + 1] \in {SPACE, TAB, NL} THEN GrammarSkip(t, i + 1) ELSE i

\* atom := quoted-string | bare-symbol, after optional whitespace: [s, e] or
\* NoMatch
GrammarAtom(t, i) ==
    LET j == GrammarSkip(t, i)
    IN  IF j < Len(t) /\ t[j + 1] = QUOTE
        THEN IF GrammarQuotedEnd(t, j + 1) = NoMatch THEN <<NoMatch, NoMatch>>
             ELSE <<j, GrammarQuotedEnd(t, j + 1)>>
        ELSE IF GrammarBareEnd(t, j) > j THEN <<j, GrammarBareEnd(t, j)>>
        ELSE <<NoMatch, NoMatch>>

\* one atom followed, after optional whitespace, by =
GrammarKeyAt(t, i) ==
    /\ GrammarAtom(t, i)[2] # NoMatch
    /\ LET j == GrammarSkip(t, GrammarAtom(t, i)[2])
       IN  j < Len(t) /\ t[j + 1] = EQUALS

\* C5: inside a dict body a key is exactly one atom, a quoted atom ending at its
\* first double quote not preceded by a backslash; when the text at the current
\* position of a dict body is not one such atom followed, after optional
\* whitespace, by =, the parse fails with 'Unexpected dictionary content' at
\* that position, and no key runs past the closing quote of a quoted string.
\* (Stated for the first position of the body of a root dict, offset 1.)
C5_KeysFollowGrammar ==
    (pc = "parsed" /\ fam = "key" /\ GrammarSkip(text, 1) < Len(text)
       /\ text[GrammarSkip(text, 1) + 1] # RBRACE) =>
        IF GrammarKeyAt(text, 1)
        THEN pres.ok =>
               pres.value.keys[1]
                 = unescape_text(Slice(text, GrammarAtom(text, 1)[1], GrammarAtom(text, 1)[2]))
        ELSE /\ ~pres.ok
             /\ pres.msg = UnexpectedDictContent
             /\ pres.i = 1

RECURSIVE DictPrefix(_, _)
\* The body of a rendered dict up to the end of the value of pair d.miss
DictPrefix(d, j) ==
    IF j = d.miss THEN PairText(d, j)
    ELSE PairText(d, j) \o PairEnd(d, j) \o DictPrefix(d, j + 1)

\* C6: every key = value pair of a dict, the last one before } included, must
\* be followed (after optional whitespace) by ;, and otherwise the parse fails
\* with 'Missing delimiter in dictionary before content' at the offset just
\* after the value, at any nesting depth; a dict whose pairs all have their ;
\* parses.
C6_DictDelimiter ==
    /\ (pc = "parsed" /\ fam = "semi") =>
          /\ ~pres.ok
          /\ pres.msg = MissingDictDelimiter
          /\ pres.i = Len(WrapPre(doc.wrap)) + 1 + Len(DictPrefix(doc, 1))
    /\ (pc = "parsed" /\ fam = "dup") => pres.ok

\* { a = 1 } inside two enclosing containers has failed after the 1
C6_Witness ==
    /\ pc = "parsed"
    /\ fam = "semi"
    /\ doc.wrap = 2
    /\ doc.ws = <<SPACE>>
    /\ doc.bad = <<>>
    /\ Len(doc.pairs) = 1
    /\ doc.pairs[1].v.lex = <<Ch1>>
    /\ pres.msg = MissingDictDelimiter
    /\ pres.i = 11

\* The node read from a document inside d enclosing containers
RECURSIVE WrapNode(_, _)
WrapNode(n, d) ==
    IF d = 0 THEN n
    ELSE IF d % 2 = 1 THEN WrapNode(List(<<n>>), d - 1)
    ELSE WrapNode(Dict(<< <<Chc>> >>, <<n>>), d - 1)

\* The items of a rendered list whose separator is wrong: a missing comma
\* before another item, a ; or a comma after the last item
ListDefects(d) ==
    { j \in 1..Len(d.items) :
        IF j < Len(d.items) THEN d.seps[j] # "comma" ELSE d.seps[j] # "space" }

RECURSIVE ListPrefix(_, _, _)
\* The body of a rendered list up to the end of item n
ListPrefix(d, j, n) ==
    IF j = n THEN d.ws \o d.items[j].lex
    ELSE d.ws \o d.items[j].lex \o SepText(d, j) \o ListPrefix(d, j + 1, n)

\* C7: list items are separated by , with no trailing comma: an item followed
\* by neither ) nor , fails with 'Missing delimiter in list before content'
\* (at the offset just after the item); a , followed directly by ) fails with
\* 'Unexpected content' at the offset after the comma; ( ) and (1, 2) succeed.
C7_ListDelimiter ==
    (pc = "parsed" /\ fam = "list") =>
        LET base == Len(WrapPre(doc.wrap)) + 1
            n == Len(doc.items)
        IN  IF ListDefects(doc) = {}
            THEN /\ pres.ok
                 /\ pres.value
                      = WrapNode(List([j \in 1..n |-> doc.items[j].node]), doc.wrap)
            ELSE LET j == CHOOSE j \in ListDefects(doc) : \A m \in ListDefects(doc) : j <= m
                 IN  /\ ~pres.ok
                     /\ IF j = n /\ doc.seps[j] = "comma"
                        THEN /\ pres.msg = UnexpectedContent
                             /\ pres.i = base + Len(ListPrefix(doc, 1, j))
                                           + Len(SepText(doc, j))
                        ELSE /\ pres.msg = MissingListDelimiter
                             /\ pres.i = base + Len(ListPrefix(doc, 1, j))

\* (1, 1,) has failed at the closing parenthesis
C7_Witness ==
    /\ pc = "parsed"
    /\ fam = "list"
    /\ doc.wrap = 0
    /\ doc.ws = <<>>
    /\ Len(doc.items) = 2
    /\ doc.items[1].lex = <<Ch1>>
    /\ doc.items[2].lex = <<Ch1>>
    /\ doc.seps = <<"comma", "comma">>
    /\ pres.msg = UnexpectedContent
    /\ pres.i = 5

\* C8: parse succeeds only if everything after the single root value is
\* whitespace; any other character after the root value makes it fail with
\* 'Unexpected trailing content' at the end offset of the root value, and no
\* tree is returned.
C8_TrailingContent ==
    (pc = "parsed" /\ fam = "trail") =>
        LET e == Len(doc.lead) + Len(doc.root.lex)
        IN  IF \E k \in 1..Len(doc.trail) : doc.trail[k] \notin {SPACE, TAB, NL}
            THEN /\ ~pres.ok
                 /\ pres.msg = UnexpectedTrailingContent
                 /\ pres.i = e
                 /\ pres.value = NoNode
            ELSE /\ pres.ok
                 /\ pres.value = doc.root.node
                 /\ pres.i = e

\* A root dict followed by a stray } has been refused
C8_Witness ==
    /\ pc = "parsed"
    /\ fam = "trail"
    /\ doc.root.node.kind = "dict"
    /\ doc.trail = <<RBRACE>>
    /\ ~pres.ok
    /\ pres.msg = UnexpectedTrailingContent

Messages == { UnexpectedContent, UnexpectedDictContent, MissingDictDelimiter,
              MissingListDelimiter, UnexpectedTrailingContent }

\* C9: every parse failure carries its message, the offset i at which the
\* failing match was attempted and the excerpt text[i : i+79], never more than
\* 79 characters; 0 <= i <= len(text), and all text before i was consumed by
\* successful matches (the text cut at i is read through to i: it parses, or
\* fails at i in the same way); for { a = 1; b = ; } the offset is that of the
\* value position just after the =, not 0.
C9_FailureDiagnostics ==
    (pc = "parsed" /\ ~pres.ok) =>
        /\ pres.msg \in Messages
        /\ pres.i >= 0
        /\ pres.i <= Len(text)
        /\ Len(pres.excerpt) <= 79
        /\ Len(pres.excerpt) = (IF Len(text) - pres.i < 79 THEN Len(text) - pres.i ELSE 79)
        /\ \A k \in 1..Len(pres.excerpt) : pres.excerpt[k] = text[pres.i + k]
        /\ LET cut == parse(parser.unescape, SubSeq(text, 1, pres.i))
           IN  IF pres.msg = UnexpectedTrailingContent
               THEN cut.ok /\ cut.i = pres.i
               ELSE ~cut.ok /\ cut.i = pres.i /\ cut.msg = pres.msg
        /\ text = MalformedValueDoc =>
              /\ pres.i = 12
              /\ text[pres.i] = EQUALS
              /\ pres.msg = UnexpectedContent

\* A failure past the start of a document with more than 79 characters left
C9_Witness ==
    /\ pc = "parsed"
    /\ ~pres.ok
    /\ pres.i > 0
    /\ Len(text) - pres.i > 79
    /\ Len(pres.excerpt) = 79

(***************************************************************************)
(* The round trip: C1                                                      *)
(***************************************************************************)

\* C1: for every tree T of Mappings with unique keys, Sequences and string
\* Scalars, Parser().parse of the text that Writer.write produces for T with
\* the default options returns a tree equal to T, with the same key order and
\* Sequence order, whatever the scalars hold (backslash, double quote,
\* whitespace, the delimiters, a final backslash).
C1_TreeRoundTrip ==
    (pc = "reparsed") => (pres.ok /\ pres.value = tree)

(***************************************************************************)
(* The writer: C12, C13, C14, C15, C16, C17                                *)
(***************************************************************************)
Range(f) == { f[j] : j \in 1..Len(f) }

\* a sorts before b: at the first position where they differ a has the smaller
\* code point, or a ends there
Ascending(a, b) ==
    \E i \in 1..Len(b) :
        /\ Len(a) >= i - 1
        /\ \A j \in 1..(i - 1) : a[j] = b[j]
        /\ Len(a) = i - 1 \/ a[i] < b[i]

\* The keys of a Mapping in the order the writer is to emit them: insertion
\* order, or ascending order under sort_keys
ClaimedKeyOrder(wr, node) ==
    IF ~wr.sort_keys THEN node.keys
    ELSE CHOOSE ks \in [1..Len(node.keys) -> Range(node.keys)] :
           /\ Range(ks) = Range(node.keys)
           /\ \A i, j \in 1..Len(ks) : i < j => Ascending(ks[i], ks[j])

\* The value stored under key k
ValueOf(node, k) == node.kids[CHOOSE j \in 1..Len(node.keys) : node.keys[j] = k]

RECURSIVE ClaimedText(_, _, _, _)
\* The text of a node at nesting depth d as C12 and C13 word it.  With tight,
\* an empty container is closed right after its opening line, whatever its
\* depth (the wording of C14).
ClaimedText(wr, node, d, tight) ==
    LET pad == Spaces((d + 1) * wr.indent)
        closing == IF tight /\ node.kids = <<>> THEN <<>> ELSE Spaces(d * wr.indent)
    IN  IF node.kind = "dict"
        THEN LET ks == ClaimedKeyOrder(wr, node)
             IN  <<LBRACE, NL>>
                   \o Flatten([j \in 1..Len(ks) |->
                         pad \o _write_atom(wr, ks[j]) \o <<SPACE, EQUALS, SPACE>>
                             \o ClaimedText(wr, ValueOf(node, ks[j]), d + 1, tight)
                             \o <<SEMI, NL>>])
                   \o closing \o <<RBRACE>>
        ELSE IF node.kind = "list"
        THEN <<LPAREN>>
               \o Flatten([j \in 1..Len(node.kids) |->
                     (IF j > 1 THEN <<COMMA>> ELSE <<>>) \o <<NL>> \o pad
                         \o ClaimedText(wr, node.kids[j], d + 1, tight)])
               \o <<NL>> \o closing \o <<RPAREN>>
        ELSE _write_atom(wr, node.val)

RECURSIVE CountNodes(_, _)
\* The number of pairs of the Mappings of a tree (what = "pairs"), of the
\* elements of its Sequences that have an element after them ("commas")
CountNodes(node, what) ==
    LET below[j \in 0..Len(node.kids)] ==
            IF j = 0 THEN 0 ELSE below[j - 1] + CountNodes(node.kids[j], what)
        here == IF node.kind = "dict" /\ what = "pairs" THEN Len(node.kids)
                ELSE IF node.kind = "list" /\ what = "commas" /\ node.kids # <<>>
                THEN Len(node.kids) - 1
                ELSE 0
    IN  here + below[Len(node.kids)]

\* The number of writes of the string str among the operations on the sink
WritesOf(str) == Cardinality({ j \in 1..Len(out) : out[j] = WriteOp(str) })

\* C12: for a Mapping at nesting depth d and indent width w the writer emits
\* {, newline, then for every pair, the last included, (d+1)*w spaces, the key
\* as an atom, " = ", the serialized value, ;, newline, and finally d*w spaces
\* and }; no pair is emitted without its ; and none twice.
C12_MappingSerialization ==
    (pc = "written" /\ fam = "wtree" /\ tree.kind = "dict") =>
        /\ SinkText(out) = ClaimedText(writer, tree, 0, FALSE) \o <<NL>>
        /\ WritesOf(<<SEMI, NL>>) = CountNodes(tree, "pairs")
        /\ WritesOf(<<SPACE, EQUALS, SPACE>>) = CountNodes(tree, "pairs")

\* A Mapping of two pairs, the second a nested Mapping, written with indent 2
C12_Witness ==
    /\ pc = "written"
    /\ fam = "wtree"
    /\ writer.indent = 2
    /\ tree.kind = "dict"
    /\ Len(tree.kids) = 2
    /\ tree.kids[2].kind = "dict"
    /\ Len(tree.kids[2].kids) = 1
    /\ WritesOf(<<SEMI, NL>>) = 4

\* C13: for a Sequence at nesting depth d and indent width w the writer emits
\* (, then for each element a newline, (d+1)*w spaces and the element, with a
\* comma after every element but the last, then a newline, d*w spaces and ).
C13_SequenceSerialization ==
    (pc = "written" /\ fam = "wtree" /\ tree.kind = "list") =>
        /\ SinkText(out) = ClaimedText(writer, tree, 0, FALSE) \o <<NL>>
        /\ WritesOf(<<COMMA, NL>>) = CountNodes(tree, "commas")

\* A Sequence of two elements, the first a Sequence of two, written with
\* indent 1
C13_Witness ==
    /\ pc = "written"
    /\ fam = "wtree"
    /\ writer.indent = 1
    /\ tree.kind = "list"
    /\ Len(tree.kids) = 2
    /\ tree.kids[1].kind = "list"
    /\ Len(tree.kids[1].kids) = 2
    /\ WritesOf(<<COMMA, NL>>) = 2

\* The tree of a document of EmptyDocs
EmptyNode(d) ==
    WrapNode(IF d.kind = "dict" THEN Dict(<<>>, <<>>) ELSE List(<<>>), d.wrap)

RECURSIVE ClaimedAtoms(_, _)
\* The atoms of a tree in the order the writer is to emit them: each key of a
\* Mapping once, followed by the atoms of its own value, the keys in the
\* order of ClaimedKeyOrder; the elements of a Sequence in their order
ClaimedAtoms(wr, node) ==
    IF node.kind = "dict"
    THEN LET ks == ClaimedKeyOrder(wr, node)
         IN  Flatten([j \in 1..Len(ks) |->
                        <<_write_atom(wr, ks[j])>> \o ClaimedAtoms(wr, ValueOf(node, ks[j]))])
    ELSE IF node.kind = "list"
    THEN Flatten([j \in 1..Len(node.kids) |-> ClaimedAtoms(wr, node.kids[j])])
    ELSE <<_write_atom(wr, node.val)>>

\* A write of punctuation or of indentation (no atom of the writer family is
\* one of these strings)
IsLayoutWrite(op) ==
    \/ op.data \in { <<LBRACE, NL>>, <<RBRACE>>, <<LPAREN>>, <<RPAREN>>, <<NL>>,
                     <<COMMA, NL>>, <<SPACE, EQUALS, SPACE>>, <<SEMI, NL>> }
    \/ \A k \in 1..Len(op.data) : op.data[k] = SPACE

IsAtomWrite(op) == op.op = "write" /\ ~IsLayoutWrite(op)

\* The atoms written to the sink, in order
AtomsWritten ==
    LET ops == SelectSeq(out, IsAtomWrite)
    IN  [j \in 1..Len(ops) |-> ops[j].data]

\* C15: with sort_keys false the writer emits the pairs of every Mapping, at
\* every nesting level, in insertion order, and with sort_keys true in
\* ascending key order; in both modes each key is emitted once with its own
\* value, and the order of Sequence elements is not changed.
C15_KeyOrdering ==
    (pc = "written" /\ fam = "wtree") => AtomsWritten = ClaimedAtoms(writer, tree)

\* A Mapping with the keys ab, a in this order, each with a nested Mapping
\* with the keys ab, a, has been written under sort_keys: a comes first at
\* both levels
C15_Witness ==
    /\ pc = "written"
    /\ fam = "wtree"
    /\ writer.sort_keys
    /\ ~writer.escape
    /\ tree.kind = "dict"
    /\ tree.keys = << <<Cha, Chb>>, <<Cha>> >>
    /\ tree.kids[1].kind = "dict"
    /\ tree.kids[1].keys = << <<Cha, Chb>>, <<Cha>> >>
    /\ tree.kids[1].kids[1] = Scalar(<<Chb, SPACE>>)
    /\ AtomsWritten
         = << <<Cha>>, <<Cha>>, <<Chb, SPACE>>, <<Cha, Chb>>, <<Chb, SPACE>>,
              <<Cha, Chb>>, <<Cha>>, <<Chb, SPACE>>, <<Cha, Chb>>, <<Chb, SPACE>> >>

\* The text of the first n operations on the sink
TextOfFirst(n) == Flatten([j \in 1..n |-> out[j].data])

\* C16: Writer.write performs on the sink all the writes of the serialized
\* root value, then one write of a single newline, then one flush: the text
\* ends with one newline added after the root's closing text, and the flush is
\* the last operation and the only flush.
C16_SinkOrder ==
    (pc = "written" /\ fam \in {"wtree", "wfault"} /\ raised = "") =>
        LET n == Len(out)
        IN  /\ n >= 3
            /\ out[n] = FlushOp
            /\ out[n - 1] = WriteOp(<<NL>>)
            /\ \A j \in 1..(n - 1) : out[j].op = "write"
            /\ TextOfFirst(n - 2) = ClaimedText(writer, tree, 0, FALSE)
            /\ SinkText(out) = ClaimedText(writer, tree, 0, FALSE) \o <<NL>>

\* A Sequence of one element has been written: seven writes of the root value,
\* the newline and the flush
C16_Witness ==
    /\ pc = "written"
    /\ fam = "wtree"
    /\ raised = ""
    /\ tree = List(<< Scalar(<<Cha>>) >>)
    /\ Len(out) = 9
    /\ out[7] = WriteOp(<<RPAREN>>)
    /\ out[8] = WriteOp(<<NL>>)
    /\ out[9] = FlushOp

\* The sink has been flushed at some point of the write
Flushed ==
    \E j \in 1..Len(out) : out[j] = FlushOp

\* C17: the sink is flushed on every exit path of a write: when a write to
\* the sink fails partway through Writer.write, the sink has been flushed by
\* the time the error reaches the caller
C17_FlushOnEveryExit ==
    (pc = "written" /\ fam = "wfault" /\ raised # "") => Flushed

(***************************************************************************)
(* The document API: C18                                                   *)
(***************************************************************************)
\* The containers the caller had before the call are as they were
CallerHeapUnchanged ==
    /\ Len(heap) >= Len(doc.before)
    /\ \A a \in 1..Len(doc.before) : heap[a] = doc.before[a]

\* C18: dump and dumps leave the caller's tree unchanged: when the call has
\* returned or failed, every container of the heap the caller passed holds
\* what it held before the call, whatever uncast_data changed in place
C18_CallerTreeUnchanged ==
    (pc \in {"dumped", "returned"} /\ fam = "dump") => CallerHeapUnchanged

\* dump has returned after uncast_data replaced, in the copy, a typed leaf
\* below the root: the copy holds the string, the caller's container the int
C18_Witness ==
    /\ pc = "dumped"
    /\ fam = "dump"
    /\ raised = ""
    /\ doc.before = << Cell("dict", << <<Cha>>, <<Chb>> >>, << Ref(2), Leaf("bool", <<Ch1>>) >>),
                       Cell("list", <<>>, << Leaf("int", <<Ch1>>) >>) >>
    /\ Len(heap) = 4
    /\ heap[3].slots[1] = Ref(4)
    /\ heap[4].slots[1] = Leaf("str", <<Ch1>>)
    /\ heap[2].slots[1] = Leaf("int", <<Ch1>>)
    /\ Flushed

(***************************************************************************)
(* Whitespace: C19                                                         *)
(***************************************************************************)
\* C19: whitespace between two tokens of a valid document, before the root
\* value and after it is insignificant: in every layout the parse succeeds
\* and returns the tree of the tokens, the one of the layout without any
\* whitespace
C19_WhitespaceInsignificant ==
    (pc = "parsed" /\ fam = "ws") =>
        /\ pres.ok
        /\ pres.value = doc.node
        /\ pres.value = parse(parser.unescape, Flatten(doc.toks)).value

\* ( 1 , "b\"c" ) has been parsed with a newline and a tab before the root
\* value, before the comma, before the closing parenthesis and after it
C19_Witness ==
    /\ pc = "parsed"
    /\ fam = "ws"
    /\ pres.ok
    /\ doc.toks = << <<LPAREN>>, <<Ch1>>, <<COMMA>>,
                     <<QUOTE, Chb, BSL, QUOTE, Chc, QUOTE>>, <<RPAREN>> >>
    /\ doc.gaps = << <<NL, TAB>>, <<>>, <<NL, TAB>>, <<SPACE>>, <<NL, TAB>>, <<NL, TAB>> >>
    /\ pres.value = List(<< Scalar(<<Ch1>>), Scalar(<<Chb, QUOTE, Chc>>) >>)

(***************************************************************************)
(* The raw mode: C20                                                       *)
(***************************************************************************)
\* The atoms of a tree, keys and values, in order
RECURSIVE RawAtoms(_)
RECURSIVE RawAtomsFrom(_, _)
RawAtomsFrom(node, j) ==
    IF j > Len(node.kids) THEN <<>>
    ELSE (IF node.kind = "dict" THEN << node.keys[j] >> ELSE <<>>)
           \o RawAtoms(node.kids[j]) \o RawAtomsFrom(node, j + 1)
RawAtoms(node) ==
    IF node.kind = "scalar" THEN << node.val >> ELSE RawAtomsFrom(node, 1)

\* The tree of lexemes of a document of RawPairDocs or RawListDocs
LexemeTree(d) ==
    IF "k" \in DOMAIN d THEN Dict(<< d.k >>, << Scalar(d.v) >>)
    ELSE List(<< Scalar(d.items[1]), Scalar(d.items[2]) >>)

\* C20: with Parser(unescape=False) every atom of the tree is the lexeme of
\* the source verbatim, and with Writer(escape=False) every atom is written
\* verbatim; for every document that parses, the raw output parses in raw
\* mode to the same raw tree and normalizing it again gives the same text
C20_RawMode ==
    fam = "raw" =>
        /\ (pc = "normalized" /\ DOMAIN doc \in {{"k", "v", "ws"}, {"items"}}) =>
              pres.ok /\ tree = LexemeTree(doc)
        /\ (pc = "normalized" /\ pres.ok) =>
              /\ tree = pres.value
              /\ AtomsWritten = RawAtoms(tree)
        /\ pc = "renormalized" =>
              /\ pres.ok
              /\ pres.value = tree
              /\ SinkText(out) = text \o text

\* { "a\"b" = "\012"; } has been normalized twice in raw mode: the atoms
\* kept their quotes and their escapes, and the second text is the first one
C20_Witness ==
    /\ pc = "renormalized"
    /\ fam = "raw"
    /\ raised = ""
    /\ tree = Dict(<< <<QUOTE, Cha, BSL, QUOTE, Chb, QUOTE>> >>,
                   << Scalar(<<QUOTE, BSL, Digit0, Ch1, Ch2, QUOTE>>) >>)
    /\ pres.value = tree
    /\ writer.indent = 0
    /\ text = <<LBRACE, NL>> \o <<QUOTE, Cha, BSL, QUOTE, Chb, QUOTE>>
                \o <<SPACE, EQUALS, SPACE>> \o <<QUOTE, BSL, Digit0, Ch1, Ch2, QUOTE>>
                \o <<SEMI, NL, RBRACE, NL>>
    /\ SinkText(out) = text \o text

(***************************************************************************)
(* Independence of the calls: C21                                          *)
(***************************************************************************)
\* C21: the text a Writer writes for a tree is the same whatever write calls
\* were made on it before, an aborted one included: it is the text a new
\* Writer with the same options writes, and curindent is 0 after every write
\* that returns
C21_CallIndependence ==
    fam = "wagain" =>
        /\ (pc = "written" /\ raised = "") => writer.curindent = 0
        /\ pc = "rewritten" =>
              /\ text = ClaimedText(writer, doc.next, 0, FALSE) \o <<NL>>
              /\ text = Flatten(write([writer EXCEPT !.curindent = 0], doc.next).chunks)
              /\ writer.curindent = 0

\* A list has been written after the write of a dict was aborted at the
\* " = " of its first pair, inside the braces, with an indent of 2
C21_Witness ==
    /\ pc = "rewritten"
    /\ fam = "wagain"
    /\ writer.indent = 2
    /\ tree.kind = "dict"
    /\ tree.keys # <<>>
    /\ fault = 3
    /\ Len(out) = 3 + 9
    /\ doc.next = List(<< Scalar(<<Chb, SPACE>>) >>)
    /\ writer.escape
    /\ text = <<LPAREN, NL, SPACE, SPACE, QUOTE, Chb, SPACE, QUOTE, NL, RPAREN, NL>>

(***************************************************************************)
(* Concurrent calls: C22                                                   *)
(***************************************************************************)
\* The call of thread th has run to its end
Returned(th) ==
    IF calls.th[th].kind = "write" THEN calls.th[th].ip > Len(calls.th[th].stmts)
    ELSE calls.th[th].ip > 2

\* What the call of thread th emits or returns when it runs alone
AloneOut(c) ==
    IF c.kind = "write"
    THEN SinkOps(write([indent |-> c.w.indent, sort_keys |-> c.w.sort_keys,
                        escape |-> c.w.escape, curindent |-> 0], c.data).chunks,
                 NoFault)
    ELSE <<>>
AloneRet(c) == IF c.kind = "parse" THEN parse(c.un, c.txt) ELSE [none |-> TRUE]

\* C22: in every interleaving of two parse calls, or of two write calls that
\* own their tree and their sink, each call emits and returns exactly what
\* it emits and returns when it runs alone, and what it has emitted so far
\* is a prefix of that
C22_ConcurrentCalls ==
    fam = "conc" =>
        \A th \in 1..2 :
            LET c == calls.th[th]
            IN  /\ Len(c.out) <= Len(AloneOut(c))
                /\ c.out = SubSeq(AloneOut(c), 1, Len(c.out))
                /\ Returned(th) => c.out = AloneOut(c) /\ c.ret = AloneRet(c)

\* Two nested containers have been written with indents 1 and 2 by two
\* threads whose statements were interleaved: the second call had started
\* and not finished when the first one wrote its closing brace
C22_Witness ==
    /\ fam = "conc"
    /\ calls.th[1].kind = "write"
    /\ calls.th[2].kind = "write"
    /\ calls.th[1].w.indent = 1
    /\ calls.th[2].w.indent = 2
    /\ calls.th[1].data.kind = "dict"
    /\ calls.th[2].data.kind = "list"
    /\ Returned(1)
    /\ ~Returned(2)
    /\ calls.curindent[2] = 2
    /\ calls.th[1].out = AloneOut(calls.th[1])

(***************************************************************************)
(* Kerning: C23, C24, C25                                                  *)
(***************************************************************************)
KernGlyphs == { KernGlyph(Cha), KernGlyph(Chb), KernGlyph(Chc), KernGlyph(103) }
GlyphPairs == KernGlyphs \X KernGlyphs

\* The UFO name of a Glyphs kerning key, as C23 states it
ClaimedUfoName(prefix, side, name) ==
    IF Len(name) > Len(prefix) /\ SubSeq(name, 1, Len(prefix)) = prefix
    THEN <<112, 117, 98, 108, 105, 99, DOT, 107, 101, 114, 110, side, DOT>>
           \o SubSeq(name, Len(prefix) + 1, Len(name))
    ELSE name
ClaimedUfoPair(item) ==
    << ClaimedUfoName(MMK_L, Ch1, item[1]), ClaimedUfoName(MMK_R, Ch2, item[2]) >>

\* An item of kerning_data is a class-to-glyph rule, and the glyph pairs it
\* covers with the groups g
IsClassName(prefix, name) == ClaimedUfoName(prefix, Ch1, name) # name
IsRule(item) == IsClassName(MMK_L, item[1]) # IsClassName(MMK_R, item[2])
Covered(item, g) ==
    LET u == ClaimedUfoPair(item)
    IN  IF ~IsRule(item) THEN {}
        ELSE IF IsClassName(MMK_L, item[1])
        THEN IF u[1] \in DOMAIN g THEN { <<m, u[2]>> : m \in Range(g[u[1]]) } ELSE {}
        ELSE IF u[2] \in DOMAIN g THEN { <<u[1], m>> : m \in Range(g[u[2]]) } ELSE {}

\* The glyph pairs with an entry of their own in kerning_data
Explicit(kd) ==
    { <<kd[i][1], kd[i][2]>> : i \in { k \in 1..Len(kd) : kd[k][1] \in KernGlyphs
                                                             /\ kd[k][2] \in KernGlyphs } }

\* Two rules give different values to a glyph pair that has no entry of its own
Conflict(kd, g, i, j) ==
    /\ kd[i][3] # kd[j][3]
    /\ (Covered(kd[i], g) \cap Covered(kd[j], g)) \ Explicit(kd) # {}
ConflictFree(kd, g) == \A i, j \in 1..Len(kd) : ~Conflict(kd, g, i, j)

\* The kerning of kerning_data as a dict from (left, right) to the value
AsDict(kd) ==
    [q \in { <<kd[i][1], kd[i][2]>> : i \in 1..Len(kd) } |->
        kd[CHOOSE i \in 1..Len(kd) : <<kd[i][1], kd[i][2]>> = q][3]]

\* C23: for kerning data without class-to-glyph conflicts, to_glyphs_kerning
\* of the UFO kerning that to_ufo_kerning produced sets exactly the original
\* (left, right, value) triples: @MMK_L_x becomes public.kern1.x and
\* @MMK_R_x becomes public.kern2.x in the UFO, glyph names are unchanged, and
\* no pair is added, lost or given another value
C23_KerningRoundTrip ==
    (fam = "kern" /\ ConflictFree(doc.kerning_data, ufo.groups)) =>
        /\ pc \in {"ufo", "glyphs"} =>
              /\ DOMAIN ufo.kerning =
                    { ClaimedUfoPair(doc.kerning_data[i]) : i \in 1..Len(doc.kerning_data) }
              /\ \A i \in 1..Len(doc.kerning_data) :
                    ufo.kerning[ClaimedUfoPair(doc.kerning_data[i])] = doc.kerning_data[i][3]
        /\ pc = "glyphs" => glyphs.kerning = AsDict(doc.kerning_data)

\* A left class with a glyph, a glyph with a right class and a glyph with a
\* glyph have gone to the UFO and back
C23_Witness ==
    /\ pc = "glyphs"
    /\ fam = "kern"
    /\ doc.kerning_data = << <<KernGlyph(Cha), KernGlyph(103), 20>>,
                             <<KernGlyph(Cha), MMK_R \o <<121>>, 10>>,
                             <<MMK_L \o <<Chx>>, KernGlyph(103), 10>> >>
    /\ ConflictFree(doc.kerning_data, ufo.groups)
    /\ ufo.kerning[<<public_kern(Ch1, <<Chx>>), KernGlyph(103)>>] = 10
    /\ glyphs.kerning[<<MMK_L \o <<Chx>>, KernGlyph(103)>>] = 10
    /\ glyphs.kerning[<<KernGlyph(Cha), MMK_R \o <<121>>>>] = 10
    /\ glyphs.kerning[<<KernGlyph(Cha), KernGlyph(103)>>] = 20

\* The class-to-glyph rules of ufo.kerning and the glyph pairs they cover
UfoRules ==
    { r \in DOMAIN ufo.kerning :
        (r[1] \notin KernGlyphs) # (r[2] \notin KernGlyphs) }
UfoCovered(r) ==
    IF r[1] \notin KernGlyphs
    THEN IF r[1] \in DOMAIN ufo.groups
         THEN { <<m, r[2]>> : m \in Range(ufo.groups[r[1]]) } ELSE {}
    ELSE IF r[2] \in DOMAIN ufo.groups
         THEN { <<r[1], m>> : m \in Range(ufo.groups[r[2]]) } ELSE {}

\* No later rule of kerning_data conflicts with the j-th item
NoLaterConflict(kd, g, j) == \A k \in (j + 1)..Len(kd) : ~Conflict(kd, g, j, k)

C25_ExceptionsPreserved ==
    (pc = "ufo" /\ fam = "kern") =>
        \A i \in 1..Len(doc.kerning_data) :
            LET item == doc.kerning_data[i]
            IN  (item[1] \in KernGlyphs /\ item[2] \in KernGlyphs) =>
                    /\ <<item[1], item[2]>> \in DOMAIN ufo.kerning
                    /\ ufo.kerning[<<item[1], item[2]>>] = item[3]

(***************************************************************************)
(* Custom parameters: C26                                                  *)
(***************************************************************************)
WinUfoName(glyphs_name) ==
    IF glyphs_name = "winAscent" THEN "openTypeOS2WinAscent" ELSE "openTypeOS2WinDescent"

\* info holds, for every winAscent / winDescent of the font, its absolute value
WinAbsIn(info) ==
    \A j \in 1..Len(doc.customParameters) :
        LET n == doc.customParameters[j][1]
            v == doc.customParameters[j][2]
        IN  /\ WinUfoName(n) \in DOMAIN info
            /\ info[WinUfoName(n)] >= 0
            /\ info[WinUfoName(n)] = abs(v)

\* C26: the value written to the UFO for winAscent and winDescent is never
\* negative and is the absolute value of the Glyphs value, by the handlers of
\* custom_params.py as by set_custom_params of font.py, which write the same
\* UFO; and the handlers give back the absolute value to Glyphs
C26_WinValues ==
    /\ pc \in {"ufo", "ufo_font"} /\ fam = "params" => WinAbsIn(ufo.info)
    /\ pc = "ufo" /\ fam = "params" =>
           ufo = set_custom_params([info |-> EmptyDict, lib |-> EmptyDict],
                                   doc.customParameters, 1)
    /\ pc = "glyphs" /\ fam = "params" =>
           \A j \in 1..Len(doc.customParameters) :
               /\ doc.customParameters[j][1] \in DOMAIN glyphs.customParameters
               /\ glyphs.customParameters[doc.customParameters[j][1]]
                      = abs(doc.customParameters[j][2])

(***************************************************************************)
(* Glyph widths: C27                                                       *)
(***************************************************************************)
\* The glyph of doc is a nonspacing mark, by its own category and
\* subCategory where it has them and by those of glyphdata where it has not
NonspacingMark ==
    /\ (IF "category" \in DOMAIN doc.glyph THEN doc.glyph.category = "Mark"
        ELSE "category" \in DOMAIN doc.glyphinfo /\ doc.glyphinfo.category = "Mark")
    /\ (IF "subCategory" \in DOMAIN doc.glyph THEN doc.glyph.subCategory = "Nonspacing"
        ELSE "subCategory" \in DOMAIN doc.glyphinfo
             /\ doc.glyphinfo.subCategory = "Nonspacing")

\* C27: to_ufo_glyph followed by to_glyphs_glyph restores the width of the
\* layer; a nonspacing mark of width > 0 gets the UFO width 0 and its width
\* under the originalWidth lib key, every other glyph its width unchanged and
\* no originalWidth key
C27_WidthRoundTrip ==
    /\ pc \in {"ufo", "glyphs"} /\ fam = "glyph" =>
           IF NonspacingMark /\ doc.layer.width > 0
           THEN /\ ufo.width = 0
                /\ ORIGINAL_WIDTH_KEY \in DOMAIN ufo.lib
                /\ ufo.lib[ORIGINAL_WIDTH_KEY] = doc.layer.width
           ELSE /\ ufo.width = doc.layer.width
                /\ ORIGINAL_WIDTH_KEY \notin DOMAIN ufo.lib
    /\ pc = "glyphs" /\ fam = "glyph" => glyphs.layer.width = doc.layer.width

\* A nonspacing mark of width > 0, by glyphdata alone, has its width back
C27_Witness ==
    /\ pc = "glyphs" /\ fam = "glyph"
    /\ NonspacingMark /\ doc.glyph = EmptyDict
    /\ ufo.width = 0
    /\ glyphs.layer.width = MaxWidth

(***************************************************************************)
(* Master user data: C28                                                   *)
(***************************************************************************)
\* C28: to_ufo_master_user_data followed by to_glyphs_master_user_data on
\* the same UFO raises nothing and leaves master.userData equal to the user
\* data of the original master; for empty user data no fontMaster.userData
\* key is written into ufo.lib
C28_UserDataRoundTrip ==
    /\ pc \in {"ufo", "glyphs"} /\ fam = "userdata" /\ doc.userData = EmptyDict =>
           MASTER_USER_DATA_KEY \notin DOMAIN ufo.lib
    /\ pc = "glyphs" /\ fam = "userdata" =>
           raised = "" /\ glyphs.userData = doc.userData

(***************************************************************************)
(* Unquoted symbols: C29                                                   *)
(***************************************************************************)
\* escape_text returned e in quotes (the data between them never starts
\* with a quote: _escape_fn puts a backslash before each)
InQuotes(e) == Len(e) >= 2 /\ e[1] = QUOTE /\ e[Len(e)] = QUOTE

\* C29: a string escape_text returns without quotes is not empty, has only
\* characters of [-_./$A-Za-z0-9], is the scalar itself, is matched in full
\* by the value pattern and returned unchanged by unescape_text; a scalar
\* with whitespace, a delimiter, a double quote or a backslash is quoted
C29_UnquotedSymbols ==
    pc \in {"escaped", "decoded"} /\ fam \in {"sym", "delim"} =>
        /\ ~InQuotes(esc) =>
              /\ esc # <<>>
              /\ \A k \in 1..Len(esc) : IsBareChar(esc[k])
              /\ esc = s
              /\ value_re(esc, 0) = [m |-> TRUE, s |-> 0, e |-> Len(esc), end |-> Len(esc)]
              /\ pc = "decoded" => dec.exc = "" /\ dec.val = esc
        /\ (\E k \in 1..Len(s) : s[k] \in Whitespace \cup Delimiters \cup {QUOTE, BSL})
              => InQuotes(esc)

\* A number with a sign and a fraction was written bare and read back
C29_Witness ==
    /\ pc = "decoded" /\ fam = "sym"
    /\ s = <<MINUS, Ch1, DOT, Ch1>>
    /\ esc = s /\ dec.val = s


(***************************************************************************)
(* Progress of the parser: C30                                             *)
(***************************************************************************)
\* C30: during Parser.parse the scan offset never decreases and never
\* exceeds len(text); every iteration of the dict loop and of the list loop
\* increases it by at least one character, so that a parse has at most
\* len(text) iterations and returns a tree or raises; the end offset of the
\* root value returned is <= len(text)
C30_Progress ==
    pc = "scanned" =>
        /\ \A k \in 1..Len(calls.offs) : 0 <= calls.offs[k] /\ calls.offs[k] <= Len(text)
        /\ \A k \in 1..(Len(calls.offs) - 1) : calls.offs[k] <= calls.offs[k + 1]
        /\ \A k \in 1..Len(calls.iters) : calls.iters[k].to >= calls.iters[k].from + 1
        /\ Len(calls.iters) <= Len(text)
        /\ pres.ok \/ pres.msg # ""
        /\ pres.i = LastOf(calls.offs)
        /\ pres.ok => calls.ok /\ pres.i <= Len(text)
        /\ ~calls.ok => ~pres.ok

\* A dict with a list in it was parsed to its end, both loops having run
\* more than one iteration
C30_Witness ==
    /\ pc = "scanned"
    /\ pres.ok
    /\ pres.i = Len(text)
    /\ \E j, k \in 1..Len(calls.iters) :
          /\ j # k
          /\ calls.iters[j].loop = "dict" /\ calls.iters[k].loop = "dict"
    /\ \E j, k \in 1..Len(calls.iters) :
          /\ j # k
          /\ calls.iters[j].loop = "list" /\ calls.iters[k].loop = "list"

=============================================================================
